---- MODULE Spec2Model ----
(***************************************************************************)
(* A model of go2jail: the rate limiter (utils.go), the regex discipline   *)
(* (discipline.go), the allow list (config.go) and the engine that wires    *)
(* watchers to disciplines to jails (engine.go).                            *)
(***************************************************************************)
EXTENDS Integers, Sequences, FiniteSets, TLC

(***************************************************************************)
(* Bounds of the model.                                                    *)
(***************************************************************************)
\* the clock runs from 0 to MaxTime
MaxTime == 4
\* Add calls recorded in one behaviour of the limiter
MaxAdds == 4
\* the limiter's max is drawn from 1..MaxRate
MaxRate == 3
\* the limiter's window is drawn from 1..MaxWindow clock ticks
MaxWindow == 2
\* Judge calls made in one behaviour of the discipline
MaxJudges == 2
\* lines one watcher's source (a tailed file, a script) produces in one behaviour
MaxLines == 2
\* exits of a shell watcher's subprocess in one behaviour
MaxExits == 2

VARIABLES
    now,        \* time.Now(), in clock ticks
    lim,        \* SpecLimiter: the *Limiter under test
    addLog,     \* SpecLimiter: the Add calls made so far, with what each returned
    rd,         \* SpecJudge: the *RegexDiscipline under test
    allow,      \* SpecJudge: cfg.Allows, the global allow list handed to Judge
    lastJudge   \* SpecJudge: the last Judge call, what it was given and returned

VARIABLES
    cfg,        \* SpecEngine: cfg.Disciplines, the configuration Start is given
    start,      \* SpecEngine: Start's other inputs (the watch whose Watch returns an error,
                \* the discipline under test, whether statListen is set) and how far it is
    fin,        \* SpecEngine: the stats server's task, and the Close calls made so far on
                \* the server, the watches, the disciplines and the jails, in order
    ectx,       \* SpecEngine: Engine.ctx is cancelled
    waits,      \* SpecEngine: Engine.waits, the watches started, in the order started
    stopper,    \* SpecEngine: the task that calls Engine.Stop, and the finisher it is at
    waiter,     \* SpecEngine: the task that calls Engine.Wait, the finisher it is at, and
                \* whether Stop had returned when Wait was called
    disc,       \* SpecEngine: each discipline's *RegexDiscipline
    mu,         \* SpecEngine: each discipline's Limiter.mu: "free", or "stop" when Stop holds it
    sweeper,    \* SpecEngine: each discipline's sweeper task and whether its context is cancelled
    dsp,        \* SpecEngine: each watch's dispatch task
    recv,       \* SpecEngine: the lines each dispatch task received, in order
    elog,       \* SpecEngine: what each dispatch task did, in order
    bg,         \* SpecEngine: the background runJail tasks still running
    counters,   \* SpecEngine: CountArrestSuccess, CountArrestFail
    fw,         \* SpecEngine: each *FileWatch
    sw          \* SpecEngine: each *ShellWatch

VARIABLES
    contains,   \* SpecAllows: the last Allows.Contains call, what it was given and returned
    restart,    \* SpecRestart: the *RestartPolicy under test
    nextLog,    \* SpecRestart: the Next and Stop calls made so far, with what Next returned
    jc          \* SpecJails: each jail's own counters, and how often its Arrest was called

VARIABLES
    chan,       \* SpecChan: a *Chan, the tasks in its Send and Close, what was received
    wr          \* SpecWriter: a *chanWriter, its channel, what was written and emitted

VARIABLES
    ring,       \* SpecRing: a *RingBuffer, what was written to it and what Write returned
    cache,      \* SpecCache: an IPLocationCache and the Set and Get calls made on it
    merged      \* SpecMerge: the Config Parse builds and the documents merged so far

ioVars == <<chan, wr>>
dataVars == <<ring, cache, merged>>
unitVars == <<contains, restart, nextLog, jc, ioVars, dataVars>>
limVars == <<lim, addLog>>
judgeVars == <<rd, allow, lastJudge>>
engVars == <<cfg, start, fin, ectx, waits, stopper, waiter, disc, mu, sweeper, dsp, recv, elog, bg,
             counters, fw, sw, unitVars>>
vars == <<now, lim, addLog, rd, allow, lastJudge, engVars>>

(***************************************************************************)
(* Limiter (utils.go).  mp is a function from the keys present to          *)
(* counterStats; a nil map is the function with the empty domain.  cancel  *)
(* is TRUE when c.cancel is non-nil, that is when a sweeper was started.   *)
(***************************************************************************)
Keys == {<<1, 1, 1, 1>>, <<2, 2, 2, 2>>}

NilLimiter == [nil |-> TRUE, max |-> 0, timeout |-> 0, mp |-> <<>>, cancel |-> FALSE]

NewLimiter(max, timeout) ==
    [nil |-> FALSE, max |-> max, timeout |-> timeout, mp |-> <<>>, cancel |-> FALSE]

\* time.Time.Before
Before(a, b) == a < b

\* v == nil || v.expiration.Before(time.Now())
Expired(mp, s, t) == s \notin DOMAIN mp \/ Before(mp[s].expiration, t)

\* a limiter that fires only on the call that reaches max
FiresOnce(n, max) == n = max

\* a limiter that fires one call late
FiresLate(n, max) == n > max

\* v.n >= c.max
Fires(n, max) == n >= max

\* a limiter that keeps the expired window's count
StaleStats(mp, s, t, timeout) ==
    [n |-> IF s \in DOMAIN mp THEN mp[s].n ELSE 0, expiration |-> t + timeout]

\* the counterStats a fresh window starts from
FreshStats(mp, s, t, timeout) == [n |-> 0, expiration |-> t + timeout]

\* Limiter.Add at time t: the limiter afterwards, the description, fire
Add(c, s, t) ==
    IF c.nil THEN [c |-> c, desc |-> <<1, "/", 1>>, fire |-> TRUE]
    ELSE
    LET timeout == IF c.timeout = 0 THEN 1 ELSE c.timeout
        v0 == IF Expired(c.mp, s, t) THEN FreshStats(c.mp, s, t, timeout) ELSE c.mp[s]
        v == [v0 EXCEPT !.n = v0.n + 1]
        mp1 == [k \in DOMAIN c.mp \cup {s} |-> IF k = s THEN v ELSE c.mp[k]]
        c1 == [c EXCEPT !.timeout = timeout, !.cancel = TRUE, !.mp = mp1]
    IN  IF Fires(v.n, c.max)
        THEN [c |-> c1, desc |-> <<v.n, ">=", c.max>>, fire |-> TRUE]
        ELSE [c |-> c1, desc |-> <<v.n, "<", c.max>>, fire |-> FALSE]

\* a sweeper that deletes every key, expired or not
SweepAll(c, t) == [c EXCEPT !.mp = <<>>]

\* the body of the sweeper's tick at time t
Sweep(c, t) ==
    LET keep == {k \in DOMAIN c.mp : ~Before(c.mp[k].expiration, t)}
    IN  [c EXCEPT !.mp = [k \in keep |-> c.mp[k]]]

(***************************************************************************)
(* Addresses, allow lists (config.go).  A net.IP is the tuple of the four  *)
(* bytes of an IPv4 address, NilIP (the nil slice) when ParseIP fails.     *)
(* The text of an ip capture is a tuple of four numbers of up to three     *)
(* digits, as the %(ip) pattern finds them.                                *)
(***************************************************************************)
NilIP == <<>>

\* net.ParseIP on the text of an ip capture
ParseIP(q) ==
    IF Len(q) # 4 \/ \E i \in 1..4 : q[i] > 255 THEN NilIP
    ELSE [i \in 1..4 |-> q[i] % 256]

\* net.IP.String
IPString(ip) == IF Len(ip) # 4 THEN <<>> ELSE <<ip[1], ip[2], ip[3], ip[4]>>

\* net.IP.IsLoopback: 127.0.0.0/8
IsLoopback(ip) == Len(ip) = 4 /\ ip[1] = 127

\* net.IP.IsUnspecified: 0.0.0.0
IsUnspecified(ip) == ip = <<0, 0, 0, 0>>

\* net.IP.IsMulticast: 224.0.0.0/4
IsMulticast(ip) == Len(ip) = 4 /\ ip[1] \div 16 = 14

\* a net.IPNet: the network's address and the length of its mask
CIDR(q, bits) == [ip |-> ParseIP(q), bits |-> bits]

\* the bits of byte i that a mask of the given length keeps
MaskBits(bits, i) ==
    IF bits >= 8 * i THEN 8 ELSE IF bits <= 8 * (i - 1) THEN 0 ELSE bits - 8 * (i - 1)

\* net.IPNet.Contains
IPNetContains(l, ip) ==
    /\ Len(ip) = Len(l.ip)
    /\ \A i \in 1..Len(ip) :
           LET shift == 2 ^ (8 - MaskBits(l.bits, i))
           IN  ip[i] \div shift = l.ip[i] \div shift

\* Allows.Contains
AllowsContains(a, ip) ==
    \/ IsLoopback(ip)
    \/ IsUnspecified(ip)
    \/ \E i \in 1..Len(a) : IPNetContains(a[i], ip)

(***************************************************************************)
(* Lines and the Matcher (utils.go).  The text of a line is a word         *)
(* followed by an address-like token; either may be missing.  A pattern is *)
(* known by its source text, and FindStringSubmatch gives the full match   *)
(* (itself a text) and the ip capture, or <<>> when it does not match.     *)
(***************************************************************************)
NoQuad == <<>>
EmptyText == [word |-> "", quad |-> NoQuad]

Words == {"", "fail"}
Quads == {NoQuad, <<1, 1, 1, 1>>, <<2, 2, 2, 2>>, <<999, 1, 1, 1>>,
          <<127, 0, 0, 1>>, <<10, 0, 0, 1>>}
Texts == {[word |-> w, quad |-> q] : w \in Words, q \in Quads}

\* NewLine
NewLine(watchID, text) == [WatchID |-> watchID, Text |-> text]

\* regexp.FindStringSubmatch with the named captures, per pattern
FindStringSubmatch(pat, s) ==
    CASE pat = "%(ip)" ->
           IF s.quad # NoQuad
           THEN <<[Key |-> "", Value |-> [word |-> "", quad |-> s.quad]],
                  [Key |-> "ip", Value |-> s.quad]>>
           ELSE <<>>
      [] pat = "fail %(ip)" ->
           IF s.word = "fail" /\ s.quad # NoQuad
           THEN <<[Key |-> "", Value |-> s], [Key |-> "ip", Value |-> s.quad]>>
           ELSE <<>>
      [] pat = "^1\\." ->
           IF s.word = "" /\ s.quad # NoQuad /\ s.quad[1] = 1
           THEN <<[Key |-> "", Value |-> [word |-> "", quad |-> <<1>>]]>>
           ELSE <<>>
      [] pat = "fail" ->
           IF s.word = "fail"
           THEN <<[Key |-> "", Value |-> [word |-> "fail", quad |-> NoQuad]]>>
           ELSE <<>>
      [] OTHER -> <<>>

NilMatcher == [nil |-> TRUE, regexList |-> <<>>]
NewMatcher(pats) == [nil |-> FALSE, regexList |-> pats]

\* Matcher.Match: the groups of the first pattern that matches
Match(m, s) ==
    LET hits == {i \in 1..Len(m.regexList) : FindStringSubmatch(m.regexList[i], s) # <<>>}
    IN  IF hits = {} THEN <<>>
        ELSE FindStringSubmatch(m.regexList[CHOOSE i \in hits : \A j \in hits : i <= j], s)

\* Matcher.Test
Test(m, s) == Len(Match(m, s)) > 0

\* KeyValueList.Get
Get(groups, key) ==
    LET hits == {i \in 1..Len(groups) : groups[i].Key = key}
    IN  IF hits = {} THEN NoQuad
        ELSE groups[CHOOSE i \in hits : \A j \in hits : i <= j].Value

(***************************************************************************)
(* RegexDiscipline (discipline.go).                                        *)
(***************************************************************************)
ZeroBadLog ==
    [Line |-> EmptyText, WatchID |-> "", DisciplineID |-> "", IP |-> NilIP,
     Extend |-> <<>>, IPLocation |-> ""]

\* NewBadLog
NewBadLog(line, disciplineID, ip, extend) ==
    [Line |-> line.Text, WatchID |-> line.WatchID, DisciplineID |-> disciplineID,
     IP |-> ip, Extend |-> extend, IPLocation |-> ""]

\* NewRegexDiscipline
NewRegexDiscipline(id, matches, ignores, rate, allows) ==
    [ID |-> id, Matches |-> matches, Ignores |-> ignores, Rate |-> rate,
     Allows |-> allows,
     tailLinesCount |-> 0, matchLineCount |-> 0, badIPLineCount |-> 0,
     allowIPCount |-> 0, watchIPCount |-> 0, arrestIPCount |-> 0]

NoDiscipline == NewRegexDiscipline("", NilMatcher, NilMatcher, NilLimiter, <<>>)

\* a discipline that tests its ignore set on the whole line
IgnoredLine(r, line, groups) == ~r.Ignores.nil /\ Test(r.Ignores, line.Text)

\* rd.Ignores != nil && rd.Ignores.Test(groups[0].Value)
Ignored(r, line, groups) == ~r.Ignores.nil /\ Test(r.Ignores, groups[1].Value)

\* a discipline that consults its own allow list only
AllowedLocalOnly(r, a, ip) == AllowsContains(r.Allows, ip)

\* a discipline that consults the global allow list only
AllowedGlobalOnly(r, a, ip) == AllowsContains(a, ip)

\* allow.Contains(ip) || rd.Allows.Contains(ip)
Allowed(r, a, ip) == AllowsContains(a, ip) \/ AllowsContains(r.Allows, ip)

\* RegexDiscipline.Judge at time t: the discipline afterwards, bad, ok
Judge(r, line, a, t) ==
    LET r1 == [r EXCEPT !.tailLinesCount = @ + 1]
        groups == Match(r.Matches, line.Text)
        r2 == [r1 EXCEPT !.matchLineCount = @ + 1]
        ip == ParseIP(Get(groups, "ip"))
        sip == IPString(ip)
        res == Add(r.Rate, sip, t)
        r3 == [r2 EXCEPT !.Rate = res.c]
    IN  IF line.Text = EmptyText \/ r.Matches.nil
          THEN [rd |-> r1, bad |-> ZeroBadLog, ok |-> FALSE]
        ELSE IF Len(groups) = 0
          THEN [rd |-> r1, bad |-> ZeroBadLog, ok |-> FALSE]
        ELSE IF Ignored(r, line, groups)
          THEN [rd |-> r1, bad |-> ZeroBadLog, ok |-> FALSE]
        ELSE IF ip = NilIP
          THEN [rd |-> [r2 EXCEPT !.badIPLineCount = @ + 1],
                bad |-> ZeroBadLog, ok |-> FALSE]
        ELSE IF Allowed(r, a, ip)
          THEN [rd |-> [r2 EXCEPT !.allowIPCount = @ + 1],
                bad |-> ZeroBadLog, ok |-> FALSE]
        ELSE IF res.fire
          THEN [rd |-> [r3 EXCEPT !.arrestIPCount = @ + 1],
                bad |-> NewBadLog(line, r.ID, ip, groups), ok |-> TRUE]
        ELSE [rd |-> [r3 EXCEPT !.watchIPCount = @ + 1],
              bad |-> ZeroBadLog, ok |-> FALSE]

NoJudge ==
    [called |-> FALSE, line |-> NewLine("", EmptyText), at |-> 0,
     rate |-> NilLimiter, bad |-> ZeroBadLog, ok |-> FALSE]

\* no Allows.Contains call yet
NoContains == [called |-> FALSE, a |-> <<>>, ip |-> NilIP, ok |-> FALSE]

\* the zero RestartPolicy: started is nil
ZeroRestartPolicy ==
    [started |-> FALSE, always |-> FALSE, exitOnFail |-> FALSE, times |-> 0,
     notFirst |-> FALSE, backoff |-> 0, slept |-> 0]

(***************************************************************************)
(* The variables of the specifications of single types, where none of      *)
(* these is under test.                                                    *)
(***************************************************************************)
\* NewChan[T](0): the channel is open, c.closed is false, c.once is unused
NewChan == [ch |-> "open", closed |-> FALSE, once |-> "new"]

\* no task uses the Chan
NoChan == [c |-> NewChan, send |-> <<>>, close |-> <<>>, received |-> <<>>, results |-> <<>>]

\* ChanWriter(ch): the buffer is empty
NewChanWriter == [buf |-> <<>>]

\* nothing was written
NoWriter ==
    [w |-> NewChanWriter, ch |-> NewChan, out |-> <<>>, input |-> <<>>, rets |-> <<>>,
     closed |-> FALSE]

\* NewRingBuffer(size): make([]byte, 0, size)
NewRingBuffer(size) == [arr |-> [i \in 1..size |-> "0"], len |-> 0]

\* no RingBuffer is written to
NoRing == [r |-> NewRingBuffer(0), W |-> <<>>, rets |-> <<>>]

\* IPLocationCache.Init(size): an empty map, make([]string, 0, size)
CacheInit(size) == [data |-> <<>>, value |-> [i \in 1..size |-> ""], len |-> 0]

\* no cache is in use
NoCache == [c |-> CacheInit(0), log |-> <<>>]

\* var cfg Config
ZeroConfig == [Jails |-> <<>>, Watches |-> <<>>, Disciplines |-> <<>>,
               IPLocationSources |-> <<>>]

\* no document is parsed
NoMerged == [cfg |-> ZeroConfig, docs |-> <<>>]

NoData ==
    /\ ring = NoRing
    /\ cache = NoCache
    /\ merged = NoMerged

NoIO ==
    /\ chan = NoChan
    /\ wr = NoWriter
    /\ NoData

NoUnits ==
    /\ contains = NoContains
    /\ restart = ZeroRestartPolicy
    /\ nextLog = <<>>
    /\ jc = <<>>
    /\ NoIO

(***************************************************************************)
(* The engine's variables where no engine is built.                        *)
(***************************************************************************)
NoEngine ==
    /\ cfg = <<>>
    /\ start = [pc |-> "run", fail |-> "", test |-> "", stat |-> FALSE,
                files |-> <<>>, missing |-> {}, skip |-> FALSE]
    /\ fin = [http |-> "none", log |-> <<>>]
    /\ ectx = FALSE
    /\ waits = <<>>
    /\ stopper = [pc |-> "idle", i |-> 0]
    /\ waiter = [pc |-> "idle", i |-> 0, afterStop |-> FALSE]
    /\ disc = <<>>
    /\ mu = <<>>
    /\ sweeper = <<>>
    /\ dsp = <<>>
    /\ recv = <<>>
    /\ elog = <<>>
    /\ bg = {}
    /\ counters = [success |-> 0, fail |-> 0]
    /\ fw = <<>>
    /\ sw = <<>>

(***************************************************************************)
(* SpecLimiter: one limiter, Add calls on any key at any time, the         *)
(* sweeper's ticks in between.                                             *)
(***************************************************************************)
InitLimiter ==
    /\ now = 0
    /\ \E max \in 1..MaxRate, timeout \in 1..MaxWindow : lim = NewLimiter(max, timeout)
    /\ addLog = <<>>
    /\ rd = NoDiscipline
    /\ allow = <<>>
    /\ lastJudge = NoJudge
    /\ NoEngine
    /\ NoUnits

LimiterAdd(s) ==
    /\ Len(addLog) < MaxAdds
    /\ LET r == Add(lim, s, now)
       IN  /\ lim' = r.c
           /\ addLog' = Append(addLog, [key |-> s, at |-> now, fire |-> r.fire,
                                        n |-> r.c.mp[s].n,
                                        expiration |-> r.c.mp[s].expiration,
                                        swept |-> s \notin DOMAIN lim.mp /\
                                                  \E j \in 1..Len(addLog) :
                                                      addLog[j].key = s])
    /\ UNCHANGED <<now, judgeVars, engVars>>

LimiterSweep ==
    /\ lim.cancel
    /\ lim' = Sweep(lim, now)
    /\ lim' # lim
    /\ UNCHANGED <<now, addLog, judgeVars, engVars>>

Tick ==
    /\ now < MaxTime
    /\ now' = now + 1
    /\ UNCHANGED <<limVars, judgeVars, engVars>>

NextLimiter ==
    \/ \E s \in Keys : LimiterAdd(s)
    \/ LimiterSweep
    \/ Tick

SpecLimiter == InitLimiter /\ [][NextLimiter]_vars

(***************************************************************************)
(* The windows of a log of Add calls, told from the calls' keys and times  *)
(* alone: the call that opens the window call i falls in, and call i's     *)
(* number within that window.                                              *)
(***************************************************************************)
PrevSame(log, i) ==
    LET before == {j \in 1..(i - 1) : log[j].key = log[i].key}
    IN  IF before = {} THEN 0 ELSE CHOOSE j \in before : \A k \in before : k <= j

RECURSIVE WinStart(_, _, _)
WinStart(log, i, timeout) ==
    LET p == PrevSame(log, i)
    IN  IF p = 0 THEN i
        ELSE LET s == WinStart(log, p, timeout)
             IN  IF log[i].at > log[s].at + timeout THEN i ELSE s

WinPos(log, i, timeout) ==
    Cardinality({j \in WinStart(log, i, timeout)..i : log[j].key = log[i].key})

\* C4: among the Add(k) calls that fall inside one unexpired window, the first
\* max-1 return fire=false and call number max returns fire=true.
C4_FirstMaxCalls ==
    \A i \in 1..Len(addLog) :
        LET pos == WinPos(addLog, i, lim.timeout)
        IN  /\ pos < lim.max => ~addLog[i].fire
            /\ pos = lim.max => addLog[i].fire

\* C4's case: with max >= 2, a call that is number max of its window has fired
C4_Witness ==
    \E i \in 1..Len(addLog) :
        /\ lim.max >= 2
        /\ WinPos(addLog, i, lim.timeout) = lim.max
        /\ addLog[i].fire

\* C5: once Add(k) has returned fire=true in a window, every further Add(k) in
\* that same unexpired window returns fire=true as well.
C5_StaysFired ==
    \A i, j \in 1..Len(addLog) :
        ( /\ i < j
          /\ addLog[i].key = addLog[j].key
          /\ WinStart(addLog, i, lim.timeout) = WinStart(addLog, j, lim.timeout)
          /\ addLog[i].fire )
        => addLog[j].fire

\* C5's case: a call past number max of its window, after one that fired
C5_Witness ==
    \E i, j \in 1..Len(addLog) :
        /\ i < j
        /\ addLog[i].key = addLog[j].key
        /\ WinStart(addLog, i, lim.timeout) = WinStart(addLog, j, lim.timeout)
        /\ addLog[i].fire
        /\ WinPos(addLog, j, lim.timeout) > lim.max
        /\ addLog[j].fire

\* call i is the first Add of its key after that key's window expired
AfterExpiry(log, i, timeout) ==
    PrevSame(log, i) # 0 /\ WinStart(log, i, timeout) = i

\* C6: after a key's window has expired the next Add(k) starts a fresh window
\* ending at now+window with count 1, whatever count the expired window reached;
\* with max >= 2 that call returns fire=false.
C6_FreshWindow ==
    \A i \in 1..Len(addLog) :
        AfterExpiry(addLog, i, lim.timeout) =>
            /\ addLog[i].n = 1
            /\ addLog[i].expiration = addLog[i].at + lim.timeout
            /\ lim.max >= 2 => ~addLog[i].fire

\* C6's case: the expired window had reached max >= 2 and fired
C6_Witness ==
    \E i \in 1..Len(addLog) :
        /\ AfterExpiry(addLog, i, lim.timeout)
        /\ lim.max >= 2
        /\ addLog[PrevSame(addLog, i)].fire
        /\ ~addLog[i].fire

\* the limiter after the Add calls of a log, had no sweep ever run
RECURSIVE NeverSwept(_, _)
NeverSwept(log, c0) ==
    IF log = <<>> THEN c0
    ELSE LET i == Len(log)
         IN  Add(NeverSwept(SubSeq(log, 1, i - 1), c0), log[i].key, log[i].at).c

\* C36: the sweep only deletes keys whose window has expired and Add does
\* not see it: every Add so far has returned the fire value that a limiter
\* which never sweeps returns for the same calls at the same times, and the
\* limiter's table is that limiter's table less some expired keys.
C36_SweepUnobservable ==
    LET c0 == NewLimiter(lim.max, lim.timeout)
        ns == NeverSwept(addLog, c0)
    IN  /\ \A i \in 1..Len(addLog) :
               addLog[i].fire =
                   Add(NeverSwept(SubSeq(addLog, 1, i - 1), c0),
                       addLog[i].key, addLog[i].at).fire
        /\ DOMAIN lim.mp \subseteq DOMAIN ns.mp
        /\ \A k \in DOMAIN ns.mp :
               IF k \in DOMAIN lim.mp THEN lim.mp[k] = ns.mp[k]
               ELSE Before(ns.mp[k].expiration, now)

\* C36's case: an Add of a key that the sweeper had deleted, after an Add of
\* that key that fired, and a key that the sweeper has deleted since
C36_Witness ==
    /\ \E i, j \in 1..Len(addLog) :
           /\ i < j
           /\ addLog[i].key = addLog[j].key
           /\ addLog[i].fire
           /\ addLog[j].swept
    /\ \E k \in Keys : k \notin DOMAIN lim.mp /\ \E i \in 1..Len(addLog) : addLog[i].key = k

(***************************************************************************)
(* SpecJudge: one discipline, built from any of the configurations below,  *)
(* judging any line at any time, the sweeper's ticks in between.           *)
(***************************************************************************)
MatchesOptions == {<<"%(ip)">>, <<"fail %(ip)">>, <<"fail %(ip)", "%(ip)">>}
IgnoresOptions == {NilMatcher, NewMatcher(<<"^1\\.">>), NewMatcher(<<"fail">>)}
RateOptions == {NilLimiter, NewLimiter(1, 1), NewLimiter(2, 2)}
LocalAllowsOptions == {<<>>, <<CIDR(<<2, 2, 2, 0>>, 24)>>}
GlobalAllowsOptions == {<<>>, <<CIDR(<<10, 0, 0, 0>>, 8)>>}

InitJudge ==
    /\ now = 0
    /\ lim = NilLimiter
    /\ addLog = <<>>
    /\ \E m \in MatchesOptions, i \in IgnoresOptions, r \in RateOptions,
          a \in LocalAllowsOptions :
          rd = NewRegexDiscipline("d1", NewMatcher(m), i, r, a)
    /\ allow \in GlobalAllowsOptions
    /\ lastJudge = NoJudge
    /\ NoEngine
    /\ NoUnits

DoJudge(text) ==
    /\ rd.tailLinesCount < MaxJudges
    /\ LET line == NewLine("w1", text)
           r == Judge(rd, line, allow, now)
       IN  /\ rd' = r.rd
           /\ lastJudge' = [called |-> TRUE, line |-> line, at |-> now,
                            rate |-> rd.Rate, bad |-> r.bad, ok |-> r.ok]
    /\ UNCHANGED <<now, limVars, allow, engVars>>

JudgeSweep ==
    /\ rd.Rate.cancel
    /\ rd' = [rd EXCEPT !.Rate = Sweep(rd.Rate, now)]
    /\ rd' # rd
    /\ UNCHANGED <<now, limVars, allow, lastJudge, engVars>>

NextJudge ==
    \/ \E text \in Texts : DoJudge(text)
    \/ JudgeSweep
    \/ Tick

SpecJudge == InitJudge /\ [][NextJudge]_vars

\* some match pattern matches the text
SomeMatch(text) == \E i \in 1..Len(rd.Matches.regexList) :
                       FindStringSubmatch(rd.Matches.regexList[i], text) # <<>>

\* the full-match substring and the ip capture of the first pattern that matches
FirstMatch(text) ==
    LET i == CHOOSE i \in 1..Len(rd.Matches.regexList) :
                 /\ FindStringSubmatch(rd.Matches.regexList[i], text) # <<>>
                 /\ \A j \in 1..(i - 1) :
                        FindStringSubmatch(rd.Matches.regexList[j], text) = <<>>
        g == FindStringSubmatch(rd.Matches.regexList[i], text)
    IN  [full |-> g[1].Value, ip |-> g[2].Value]

\* the conditions under which the claim says Judge fires
ShouldFire(j) ==
    /\ j.line.Text # EmptyText
    /\ SomeMatch(j.line.Text)
    /\ LET m == FirstMatch(j.line.Text)
           ip == ParseIP(m.ip)
       IN  /\ rd.Ignores.nil
              \/ \A i \in 1..Len(rd.Ignores.regexList) :
                     FindStringSubmatch(rd.Ignores.regexList[i], m.full) = <<>>
           /\ ip # NilIP
           /\ ~AllowsContains(allow, ip)
           /\ ~AllowsContains(rd.Allows, ip)
           /\ Add(j.rate, IPString(ip), j.at).fire

\* C2: Judge returns fire=true if and only if the text is non-empty, some match
\* pattern matches it, the ignore set (when present) does not match the
\* full-match substring, the ip capture parses, the address is in neither allow
\* list and the limiter fires for the address; otherwise fire=false, no verdict.
C2_JudgeFiresIff ==
    lastJudge.called =>
        /\ lastJudge.ok <=> ShouldFire(lastJudge)
        /\ ~lastJudge.ok => lastJudge.bad = ZeroBadLog

\* C2's case: a line the ignore set would match as a whole, but whose
\* full-match substring it does not match, fired with a limiter of max >= 2
C2_Witness ==
    /\ lastJudge.called
    /\ lastJudge.ok
    /\ ~rd.Ignores.nil
    /\ Test(rd.Ignores, lastJudge.line.Text)
    /\ ~rd.Rate.nil
    /\ rd.Rate.max >= 2

\* C3: every verdict Judge returns has an ip that is in neither the global
\* allow list nor the discipline's local allow list.
C3_VerdictNotAllowed ==
    (lastJudge.called /\ lastJudge.ok) =>
        /\ lastJudge.bad.IP # NilIP
        /\ ~AllowsContains(allow, lastJudge.bad.IP)
        /\ ~AllowsContains(rd.Allows, lastJudge.bad.IP)

\* C3's case: a verdict returned while both allow lists hold a block, after a
\* line with an address of the local block was judged and did not count
C3_Witness ==
    /\ lastJudge.called
    /\ lastJudge.ok
    /\ allow # <<>>
    /\ rd.Allows # <<>>
    /\ rd.allowIPCount > 0

\* a Judge call on the text ends before the rate-limit step: the text is
\* empty, no pattern matches, the match is ignored, the ip capture does not
\* parse, or the address is in an allow list
EndsEarly(text) ==
    \/ text = EmptyText
    \/ ~SomeMatch(text)
    \/ LET m == FirstMatch(text)
           ip == ParseIP(m.ip)
       IN  \/ ~rd.Ignores.nil /\ Test(rd.Ignores, m.full)
           \/ ip = NilIP
           \/ AllowsContains(allow, ip)
           \/ AllowsContains(rd.Allows, ip)

\* C37: a Judge call that ends before the rate-limit step leaves the rate
\* limiter as it was, table and sweeper alike: only the lines that reach the
\* limiter count toward an address's rate.
C37_EarlyJudgeKeepsTable ==
    [][(rd'.tailLinesCount = rd.tailLinesCount + 1 /\ EndsEarly(lastJudge'.line.Text))
          => rd'.Rate = rd.Rate]_vars

\* C37's case: the limiter's table holds a count, and the call just made was
\* on a line with an address of an allow list, which did not count
C37_Witness ==
    /\ lastJudge.called
    /\ ~lastJudge.ok
    /\ lastJudge.line.Text # EmptyText
    /\ SomeMatch(lastJudge.line.Text)
    /\ LET ip == ParseIP(FirstMatch(lastJudge.line.Text).ip)
       IN  /\ ip # NilIP
           /\ AllowsContains(allow, ip) \/ AllowsContains(rd.Allows, ip)
    /\ lastJudge.rate.mp # <<>>
    /\ rd.Rate = lastJudge.rate

(***************************************************************************)
(* RestartPolicy (utils.go).  err is "nil" or "error".                     *)
(***************************************************************************)
NewRestartPolicy(policy, backoff) ==
    [started |-> TRUE, always |-> policy = "always", exitOnFail |-> policy = "on-success",
     times |-> IF policy = "once" THEN 1 ELSE 0, notFirst |-> FALSE, backoff |-> backoff,
     slept |-> 0]

\* a Stop that leaves the policy as it is
RPStopNothing(rp) == rp

\* RestartPolicy.Stop
RPStop(rp) == [rp EXCEPT !.started = FALSE]

\* RestartPolicy.wait: slept counts the time.Sleep(rp.backoff) calls
RPWait(rp) ==
    IF rp.backoff = 0 THEN rp
    ELSE IF rp.notFirst THEN [rp EXCEPT !.slept = @ + 1]
    ELSE [rp EXCEPT !.notFirst = TRUE]

\* a Next whose on-success policy restarts after any exit
RPNextAnyExit(rp, err) ==
    IF ~rp.started THEN [rp |-> rp, ok |-> FALSE]
    ELSE IF rp.always \/ rp.exitOnFail THEN [rp |-> RPWait(rp), ok |-> TRUE]
    ELSE IF rp.times > 0 THEN [rp |-> RPWait([rp EXCEPT !.times = @ - 1]), ok |-> TRUE]
    ELSE [rp |-> rp, ok |-> FALSE]

\* RestartPolicy.Next: the policy afterwards and the answer
RPNext(rp, err) ==
    IF ~rp.started THEN [rp |-> rp, ok |-> FALSE]
    ELSE IF rp.always THEN [rp |-> RPWait(rp), ok |-> TRUE]
    ELSE IF rp.exitOnFail THEN [rp |-> rp, ok |-> err = "nil"]
    ELSE IF rp.times > 0 THEN [rp |-> RPWait([rp EXCEPT !.times = @ - 1]), ok |-> TRUE]
    ELSE [rp |-> rp, ok |-> FALSE]

(***************************************************************************)
(* The configurations the engine is started with (Start, engine.go): a     *)
(* file watch with two disciplines, or a shell watch with one; three jails *)
(* of which j2 runs in the background.                                     *)
(***************************************************************************)
FileWatches == {"wf"}
ShellWatches == {"ws"}

\* a Start that wires every discipline with its own jails, test mode or not
WiringEveryDiscipline == cfg

\* the disciplines Start wires and the jails it gives them: all of them with
\* their own jails, or in test mode the discipline under test alone, with the
\* built-in echo jail test-config
Wiring ==
    IF start.test = "" THEN cfg
    ELSE LET tested == SelectSeq(cfg, LAMBDA d : d.ID = start.test)
         IN  [i \in 1..Len(tested) |-> [tested[i] EXCEPT !.Jails = <<"test-config">>]]

\* the watches Start attaches a discipline to: the keys of Engine.watchList
Watches ==
    UNION {{Wiring[i].Watches[k] : k \in 1..Len(Wiring[i].Watches)} : i \in 1..Len(Wiring)}

\* FileWatch.Files
Files(w) == start.files

\* a jail list whose background flags are not looked at
NeverBackground(j) == FALSE

\* a jail list every jail of which is started on a task of its own
AlwaysBackground(j) == TRUE

\* BaseJail.Background
Background(j) == j = "j2"

\* what the jail's Arrest returns: j3's command fails
ArrestErr(j) == IF j = "j3" THEN "error" ELSE "nil"

\* the values of cfg.Disciplines
CfgDisciplines ==
    {<<[ID |-> "d1", Watches |-> <<"wf">>, Jails |-> <<"j1", "j2", "j3">>,
        Rate |-> NewLimiter(1, 1)],
       [ID |-> "d2", Watches |-> <<"wf">>, Jails |-> <<"j2">>,
        Rate |-> NewLimiter(2, 1)]>>,
     <<[ID |-> "d1", Watches |-> <<"ws">>, Jails |-> <<"j3", "j2", "j1">>,
        Rate |-> NewLimiter(1, 1)]>>}

Disciplines == {cfg[i].ID : i \in 1..Len(cfg)}

\* cfg.Allows
CfgAllows == <<CIDR(<<10, 0, 0, 0>>, 8)>>

\* the texts the watchers' sources produce
EngineTexts == {[word |-> "", quad |-> <<1, 1, 1, 1>>], EmptyText}

\* the AddDiscipline calls Start makes, in order
RECURSIVE AddDisciplineCalls(_)
AddDisciplineCalls(ds) ==
    IF ds = <<>> THEN <<>>
    ELSE [i \in 1..Len(Head(ds).Watches) |->
             [w |-> Head(ds).Watches[i], d |-> Head(ds).ID, js |-> Head(ds).Jails]]
         \o AddDisciplineCalls(Tail(ds))

\* Engine.watchList[w] after Start's AddDiscipline calls
WatchList(w) == SelectSeq(AddDisciplineCalls(Wiring), LAMBDA c : c.w = w)

\* Engine.cancels after newEngine, StartStatServer and Start's AddDiscipline calls
Cancels ==
    <<[f |-> "cancel", d |-> ""]>> \o
    (IF start.stat THEN <<[f |-> "server", d |-> ""]>> ELSE <<>>) \o
    [i \in 1..Len(AddDisciplineCalls(Wiring)) |->
        [f |-> "close", d |-> AddDisciplineCalls(Wiring)[i].d]]

(***************************************************************************)
(* SpecEngine: the state after Start has wired the configuration           *)
(* (newEngine, AddDiscipline), before Engine.Start starts the watches.     *)
(***************************************************************************)
IdleDispatch == [pc |-> "none", n |-> 0, ci |-> 0, ji |-> 0, bad |-> ZeroBadLog]

NewFileWatch(w) ==
    [ctx |-> FALSE, closed |-> FALSE, wgCount |-> 0, next |-> 0, produced |-> 0,
     linesCounter |-> 0,
     task |-> [i \in 1..Len(Files(w)) |-> [pc |-> "none", text |-> EmptyText]]]

NewShellWatch(policy) ==
    [ctx |-> FALSE, closed |-> FALSE, sup |-> "none",
     split |-> [pc |-> "none", text |-> EmptyText],
     proc |-> "none", err |-> "nil", exits |-> 0,
     pipe |-> [full |-> FALSE, text |-> EmptyText], copyDead |-> FALSE,
     buf |-> [full |-> FALSE, text |-> EmptyText], flushed |-> 0,
     RestartPolicy |-> NewRestartPolicy(policy, 1),
     written |-> <<>>, linesCounter |-> 0, restartCounter |-> 0]

\* Start is called with every watch able to start, not in test mode, without statListen
PlainStart ==
    [pc |-> "run", fail |-> "", test |-> "", stat |-> FALSE,
     files |-> <<"f1">>, missing |-> {}, skip |-> FALSE]

\* the engine and the watches after newEngine and the AddDiscipline calls
Wired ==
    /\ now = 0
    /\ lim = NilLimiter
    /\ addLog = <<>>
    /\ rd = NoDiscipline
    /\ allow = CfgAllows
    /\ lastJudge = NoJudge
    /\ NoUnits
    /\ fin = [http |-> IF start.stat THEN "serving" ELSE "none", log |-> <<>>]
    /\ ectx = FALSE
    /\ waits = IF start.stat THEN <<"http">> ELSE <<>>
    /\ stopper = [pc |-> "idle", i |-> 0]
    /\ waiter = [pc |-> "idle", i |-> 0, afterStop |-> FALSE]
    /\ disc = [d \in Disciplines |->
                 LET c == CHOOSE c \in {cfg[i] : i \in 1..Len(cfg)} :
                              c.ID = d
                 IN  NewRegexDiscipline(d, NewMatcher(<<"%(ip)">>), NilMatcher, c.Rate, <<>>)]
    /\ mu = [d \in Disciplines |-> "free"]
    /\ sweeper = [d \in Disciplines |-> [pc |-> "none", done |-> FALSE]]
    /\ dsp = [w \in Watches |-> IdleDispatch]
    /\ recv = [w \in Watches |-> <<>>]
    /\ elog = [w \in Watches |-> <<>>]
    /\ bg = {}
    /\ counters = [success |-> 0, fail |-> 0]
    /\ fw = [w \in FileWatches |-> NewFileWatch(w)]

InitEngine ==
    /\ cfg \in CfgDisciplines
    /\ start = PlainStart
    /\ Wired
    /\ \E policy \in {"always", "on-success", "once"} :
          sw = [w \in ShellWatches |-> NewShellWatch(policy)]

outerVars == <<now, lim, addLog, rd, allow, lastJudge, cfg, start, fin, unitVars>>

\* the lines the watches' sources have produced so far, all watches together
RECURSIVE LinesProduced(_)
LinesProduced(ws) ==
    IF ws = {} THEN 0
    ELSE LET w == CHOOSE x \in ws : TRUE
         IN  (IF w \in FileWatches THEN fw[w].produced ELSE Len(sw[w].written))
             + LinesProduced(ws \ {w})

\* Engine.Start has returned nil
Started == Len(waits) = Cardinality(Watches) + (IF start.stat THEN 1 ELSE 0)

(***************************************************************************)
(* Engine.Start and startWatch: the watches are started in the order of a  *)
(* map iteration, each with its dispatch task.                             *)
(***************************************************************************)
\* FileWatch.watch: every file is tailed and gets its task
StartFileWatch(w) ==
    fw' = [fw EXCEPT ![w].wgCount = Len(Files(w)),
                     ![w].next = Len(Files(w)) + 1,
                     ![w].task = [i \in 1..Len(Files(w)) |->
                                     [pc |-> "select", text |-> EmptyText]]]

\* ShellWatch.watch: RestartPolicy.Next(nil), execute, in test mode
\* RestartPolicy.Stop(), the two tasks
StartShellWatch(w) ==
    sw' = [sw EXCEPT ![w].RestartPolicy = IF start.test # "" THEN RPStop(RPNext(@, "nil").rp)
                                          ELSE RPNext(@, "nil").rp,
                     ![w].proc = "running",
                     ![w].sup = "wait1",
                     ![w].split = [pc |-> "select", text |-> EmptyText]]

EngineStartWatch(w) ==
    /\ stopper.pc = "idle" /\ waiter.pc = "idle"
    /\ start.pc = "run" /\ w # start.fail
    /\ \A i \in 1..Len(waits) : waits[i] # w
    /\ IF w \in FileWatches
       THEN StartFileWatch(w) /\ UNCHANGED sw
       ELSE StartShellWatch(w) /\ UNCHANGED fw
    /\ dsp' = [dsp EXCEPT ![w].pc = "select"]
    /\ waits' = Append(waits, w)
    /\ UNCHANGED <<outerVars, ectx, stopper, waiter, disc, mu, sweeper, recv, elog, bg,
                   counters>>

(***************************************************************************)
(* Engine.Stop: cancels.Finish runs the finishers last to first, so every  *)
(* discipline's Close (Limiter.Stop) runs before the context is cancelled. *)
(***************************************************************************)
AfterFinisher(t) == IF t.i = 1 THEN [t EXCEPT !.pc = "done", !.i = 0]
                    ELSE [t EXCEPT !.pc = "finish", !.i = t.i - 1]

StopBegin ==
    /\ Started
    /\ stopper.pc = "idle"
    /\ stopper' = [pc |-> "finish", i |-> Len(Cancels)]
    /\ UNCHANGED <<outerVars, ectx, waits, waiter, disc, mu, sweeper, dsp, recv, elog,
                   bg, counters, fw, sw>>

\* the finisher is newEngine's cancel
StopCancel ==
    /\ stopper.pc = "finish"
    /\ Cancels[stopper.i].f = "cancel"
    /\ ectx' = TRUE
    /\ stopper' = AfterFinisher(stopper)
    /\ UNCHANGED <<outerVars, waits, waiter, disc, mu, sweeper, dsp, recv, elog, bg,
                   counters, fw, sw>>

\* the finisher is a discipline's Close: Limiter.Stop up to c.wg.Wait()
StopLimiterLock ==
    /\ stopper.pc = "finish"
    /\ Cancels[stopper.i].f = "close"
    /\ LET d == Cancels[stopper.i].d
       IN  /\ mu[d] = "free"
           /\ mu' = [mu EXCEPT ![d] = "stop"]
           /\ IF disc[d].Rate.cancel
              THEN /\ disc' = [disc EXCEPT ![d].Rate.cancel = FALSE, ![d].Rate.mp = <<>>]
                   /\ sweeper' = [sweeper EXCEPT ![d].done = TRUE]
              ELSE UNCHANGED <<disc, sweeper>>
           /\ fin' = [fin EXCEPT !.log = Append(@, [k |-> "discipline", id |-> d])]
    /\ stopper' = [stopper EXCEPT !.pc = "wgwait"]
    /\ UNCHANGED <<unitVars, now, lim, addLog, rd, allow, lastJudge, cfg, start, ectx,
                   waits, waiter, dsp, recv, elog, bg, counters, fw, sw>>

\* Limiter.Stop: c.wg.Wait() returns, the deferred Unlock runs
StopLimiterWaited ==
    /\ stopper.pc = "wgwait"
    /\ LET d == Cancels[stopper.i].d
       IN  /\ sweeper[d].pc = "none"
           /\ mu' = [mu EXCEPT ![d] = "free"]
    /\ stopper' = AfterFinisher(stopper)
    /\ UNCHANGED <<outerVars, ectx, waits, waiter, disc, sweeper, dsp, recv, elog, bg,
                   counters, fw, sw>>

(***************************************************************************)
(* Engine.Wait: waits.Finish waits for the dispatch tasks, last started    *)
(* first.                                                                  *)
(***************************************************************************)
WaitBegin ==
    /\ Started
    /\ waiter.pc = "idle"
    /\ waiter' = [pc |-> "finish", i |-> Len(waits), afterStop |-> stopper.pc = "done"]
    /\ UNCHANGED <<outerVars, ectx, waits, stopper, disc, mu, sweeper, dsp, recv, elog,
                   bg, counters, fw, sw>>

WaitDispatch ==
    /\ waiter.pc = "finish"
    /\ waits[waiter.i] \in Watches
    /\ dsp[waits[waiter.i]].pc = "exited"
    /\ waiter' = AfterFinisher(waiter)
    /\ UNCHANGED <<outerVars, ectx, waits, stopper, disc, mu, sweeper, dsp, recv, elog,
                   bg, counters, fw, sw>>

(***************************************************************************)
(* The limiter's sweeper task (Limiter.startBackground).                   *)
(***************************************************************************)
\* the ticker fires: the task sweeps, or blocks on c.mu while Stop holds it
SweeperTick(d) ==
    /\ sweeper[d].pc = "select"
    /\ IF mu[d] = "free"
       THEN /\ disc' = [disc EXCEPT ![d].Rate = Sweep(@, now)]
            /\ UNCHANGED sweeper
       ELSE /\ sweeper' = [sweeper EXCEPT ![d].pc = "lock"]
            /\ UNCHANGED disc
    /\ UNCHANGED <<outerVars, ectx, waits, stopper, waiter, mu, dsp, recv, elog, bg,
                   counters, fw, sw>>

\* <-ctx.Done(): c.wg.Done(), return
SweeperExit(d) ==
    /\ sweeper[d].pc = "select"
    /\ sweeper[d].done
    /\ sweeper' = [sweeper EXCEPT ![d] = [pc |-> "none", done |-> FALSE]]
    /\ UNCHANGED <<outerVars, ectx, waits, stopper, waiter, disc, mu, dsp, recv, elog,
                   bg, counters, fw, sw>>

(***************************************************************************)
(* The dispatch task of a watch (startWatch's goroutine, watchCallback.Exec,*)
(* runJail).                                                               *)
(***************************************************************************)
\* a dispatch task that returns to its select after the first callback
AfterJailFirstCallback(w, t) ==
    IF t.ji < Len(WatchList(w)[t.ci].js)
    THEN [t EXCEPT !.pc = "jail", !.ji = t.ji + 1]
    ELSE [t EXCEPT !.pc = "select", !.ci = 0, !.ji = 0, !.bad = ZeroBadLog]

\* where the task goes after jail ji of callback ci
AfterJail(w, t) ==
    IF t.ji < Len(WatchList(w)[t.ci].js)
    THEN [t EXCEPT !.pc = "jail", !.ji = t.ji + 1]
    ELSE IF t.ci < Len(WatchList(w))
    THEN [t EXCEPT !.pc = "judge", !.ci = t.ci + 1, !.ji = 0, !.bad = ZeroBadLog]
    ELSE [t EXCEPT !.pc = "select", !.ci = 0, !.ji = 0, !.bad = ZeroBadLog]

\* a dispatch task that drops the line it received
ReceiveDropped(w, text) ==
    /\ dsp[w].pc = "select"
    /\ recv' = [recv EXCEPT ![w] = Append(@, NewLine(w, text))]
    /\ dsp' = dsp

\* case line, ok := <-ch with ok: the task turns to the first callback
Receive(w, text) ==
    /\ dsp[w].pc = "select"
    /\ recv' = [recv EXCEPT ![w] = Append(@, NewLine(w, text))]
    /\ dsp' = [dsp EXCEPT ![w] = [pc |-> "judge", n |-> Len(recv[w]) + 1, ci |-> 1,
                                  ji |-> 0, bad |-> ZeroBadLog]]

\* Exec: w.d.Action.Judge(line, allow, logger)
DispatchJudge(w) ==
    /\ dsp[w].pc = "judge"
    /\ LET t == dsp[w]
           d == WatchList(w)[t.ci].d
           r == Judge(disc[d], recv[w][t.n], allow, now)
           locks == r.rd.Rate # disc[d].Rate
       IN  /\ locks => mu[d] = "free"
           /\ disc' = [disc EXCEPT ![d] = r.rd]
           /\ IF r.rd.Rate.cancel /\ ~disc[d].Rate.cancel
              THEN sweeper' = [sweeper EXCEPT ![d] = [pc |-> "select", done |-> FALSE]]
              ELSE UNCHANGED sweeper
           /\ elog' = [elog EXCEPT ![w] =
                          Append(@, [e |-> "judge", n |-> t.n, ci |-> t.ci, ji |-> 0,
                                     ok |-> r.ok, bad |-> r.bad])]
           /\ dsp' = [dsp EXCEPT ![w] =
                         IF r.ok
                         THEN AfterJail(w, [t EXCEPT !.bad = r.bad])
                         ELSE AfterJail(w, [t EXCEPT !.ji = Len(WatchList(w)[t.ci].js)])]
    /\ UNCHANGED <<outerVars, ectx, waits, stopper, waiter, mu, recv, bg, counters, fw, sw>>

\* Exec: go runJail(bad, j, logger), or runJail(bad, j, logger) up to Arrest
DispatchJail(w) ==
    /\ dsp[w].pc = "jail"
    /\ LET t == dsp[w]
           j == WatchList(w)[t.ci].js[t.ji]
       IN  IF Background(j)
           THEN /\ bg' = bg \cup {[w |-> w, n |-> t.n, ci |-> t.ci, ji |-> t.ji]}
                /\ elog' = [elog EXCEPT ![w] =
                               Append(@, [e |-> "go", n |-> t.n, ci |-> t.ci,
                                          ji |-> t.ji, ok |-> TRUE, bad |-> t.bad])]
                /\ dsp' = [dsp EXCEPT ![w] = AfterJail(w, t)]
           ELSE /\ UNCHANGED bg
                /\ elog' = [elog EXCEPT ![w] =
                               Append(@, [e |-> "call", n |-> t.n, ci |-> t.ci,
                                          ji |-> t.ji, ok |-> TRUE, bad |-> t.bad])]
                /\ dsp' = [dsp EXCEPT ![w].pc = "arrest"]
    /\ UNCHANGED <<outerVars, ectx, waits, stopper, waiter, disc, mu, sweeper, recv,
                   counters, fw, sw>>

\* runJail counting every return of Arrest as a success
CountSuccessOnly(c, err) == [c EXCEPT !.success = @ + 1]

\* runJail's counter for what Arrest returned
Count(c, err) ==
    IF err = "nil" THEN [c EXCEPT !.success = @ + 1] ELSE [c EXCEPT !.fail = @ + 1]

\* runJail on the dispatch task: Arrest returns
ArrestReturn(w) ==
    /\ dsp[w].pc = "arrest"
    /\ LET err == ArrestErr(WatchList(w)[dsp[w].ci].js[dsp[w].ji])
       IN  /\ counters' = Count(counters, err)
           /\ elog' = [elog EXCEPT ![w] =
                          Append(@, [e |-> "return", n |-> dsp[w].n, ci |-> dsp[w].ci,
                                     ji |-> dsp[w].ji, ok |-> err = "nil",
                                     bad |-> dsp[w].bad])]
    /\ dsp' = [dsp EXCEPT ![w] = AfterJail(w, dsp[w])]
    /\ UNCHANGED <<outerVars, ectx, waits, stopper, waiter, disc, mu, sweeper, recv, bg,
                   fw, sw>>

\* runJail on a task of its own: Arrest returns
BgArrestReturn(t) ==
    /\ t \in bg
    /\ bg' = bg \ {t}
    /\ counters' = Count(counters, ArrestErr(WatchList(t.w)[t.ci].js[t.ji]))
    /\ UNCHANGED <<outerVars, ectx, waits, stopper, waiter, disc, mu, sweeper, dsp, recv,
                   elog, fw, sw>>

(***************************************************************************)
(* FileWatch (watch.go): one task per file.  A task is at its select, in   *)
(* ch.Send with a line ("send"), in its deferred function after            *)
(* fd.wg.Done() ("defer"), or gone ("done").                               *)
(***************************************************************************)
\* fd.cancel.Finish(): ch.Close(), then the context's cancel
FileFinish(f) == [f EXCEPT !.closed = TRUE, !.ctx = TRUE]

\* fd.wg.Wait() would return
FileWgZero(w) == \A i \in 1..Len(Files(w)) : fw[w].task[i].pc \notin {"select", "send"}

\* case line, ok := <-t.Lines with a line: the task goes to ch.Send(l)
FileRead(w, i, text) ==
    /\ fw[w].task[i].pc = "select"
    /\ LinesProduced(Watches) < MaxLines
    /\ fw' = [fw EXCEPT ![w].task[i] = [pc |-> "send", text |-> text],
                        ![w].produced = @ + 1]
    /\ UNCHANGED <<outerVars, ectx, waits, stopper, waiter, disc, mu, sweeper, dsp, recv,
                   elog, bg, counters, sw>>

\* t.Lines is closed or carries an error: the task returns, fd.wg.Done()
FileTailEnd(w, i) ==
    /\ fw[w].task[i].pc = "select"
    /\ fw' = [fw EXCEPT ![w].task[i].pc = "defer"]
    /\ UNCHANGED <<outerVars, ectx, waits, stopper, waiter, disc, mu, sweeper, dsp, recv,
                   elog, bg, counters, sw>>

\* case <-fd.ctx.Done(): the task returns, fd.wg.Done()
FileCtxDone(w, i) ==
    /\ fw[w].task[i].pc = "select"
    /\ fw[w].ctx
    /\ fw' = [fw EXCEPT ![w].task[i].pc = "defer"]
    /\ UNCHANGED <<outerVars, ectx, waits, stopper, waiter, disc, mu, sweeper, dsp, recv,
                   elog, bg, counters, sw>>

\* ch.Send(l) meets the dispatch task's receive; fd.linesCounter.Incr()
FileDeliver(w, i) ==
    /\ fw[w].task[i].pc = "send"
    /\ ~fw[w].closed
    /\ Receive(w, fw[w].task[i].text)
    /\ fw' = [fw EXCEPT ![w].task[i] = [pc |-> "select", text |-> EmptyText],
                        ![w].linesCounter = @ + 1]
    /\ UNCHANGED <<outerVars, ectx, waits, stopper, waiter, disc, mu, sweeper, elog, bg,
                   counters, sw>>

\* ch.Send(l) on the closed channel returns an error: the task returns
FileSendFail(w, i) ==
    /\ fw[w].task[i].pc = "send"
    /\ fw[w].closed
    /\ fw' = [fw EXCEPT ![w].task[i] = [pc |-> "defer", text |-> EmptyText]]
    /\ UNCHANGED <<outerVars, ectx, waits, stopper, waiter, disc, mu, sweeper, dsp, recv,
                   elog, bg, counters, sw>>

\* the rest of the deferred function: wgCount.Add(-1), Finish at 0, t.Stop()
FileDefer(w, i) ==
    /\ fw[w].task[i].pc = "defer"
    /\ LET f1 == [fw[w] EXCEPT !.wgCount = @ - 1, !.task[i].pc = "done"]
       IN  fw' = [fw EXCEPT ![w] = IF f1.wgCount <= 0 THEN FileFinish(f1) ELSE f1]
    /\ UNCHANGED <<outerVars, ectx, waits, stopper, waiter, disc, mu, sweeper, dsp, recv,
                   elog, bg, counters, sw>>

(***************************************************************************)
(* ShellWatch (watch.go): the subprocess, the copy of its output into      *)
(* sd.ch (one line in flight: "pipe"), the supervisor task and the         *)
(* line task that forwards sd.ch to the watch's Line channel.              *)
(***************************************************************************)
\* sd.clean(): sd.cancel(), sd.ch.Close()
ShellClean(s) == [s EXCEPT !.ctx = TRUE, !.closed = TRUE]

\* sd.wg.Wait() would return
ShellWgZero(w) == sw[w].sup = "done" /\ sw[w].split.pc = "done"

\* the subprocess writes a line.  With its newline (nl) the copy is in
\* chanWriter.Write, in sd.ch.Send; without, the line stays in the writer's
\* buffer and is the last thing the subprocess writes
ScriptWrite(w, text, nl) ==
    /\ sw[w].proc = "running"
    /\ ~sw[w].pipe.full
    /\ ~sw[w].buf.full
    /\ ~sw[w].copyDead
    /\ LinesProduced(Watches) < MaxLines
    /\ sw' = [sw EXCEPT ![w].pipe = IF nl THEN [full |-> TRUE, text |-> text] ELSE @,
                        ![w].buf = IF nl THEN @ ELSE [full |-> TRUE, text |-> text],
                        ![w].written = Append(@, text)]
    /\ UNCHANGED <<outerVars, ectx, waits, stopper, waiter, disc, mu, sweeper, dsp, recv,
                   elog, bg, counters, fw>>

\* the subprocess exits on its own, with or without an error
ScriptExit(w, err) ==
    /\ sw[w].proc = "running"
    /\ sw[w].exits < MaxExits
    /\ sw' = [sw EXCEPT ![w].proc = "exited", ![w].err = err, ![w].exits = @ + 1]
    /\ UNCHANGED <<outerVars, ectx, waits, stopper, waiter, disc, mu, sweeper, dsp, recv,
                   elog, bg, counters, fw>>

\* sd.ch.Send on the closed channel returns an error: Write fails, the copy ends
PipeSendFail(w) ==
    /\ sw[w].pipe.full
    /\ sw[w].closed
    /\ sw' = [sw EXCEPT ![w].pipe = [full |-> FALSE, text |-> EmptyText],
                        ![w].copyDead = TRUE]
    /\ UNCHANGED <<outerVars, ectx, waits, stopper, waiter, disc, mu, sweeper, dsp, recv,
                   elog, bg, counters, fw>>

\* a cmd.Wait() that does not wait for the copy of the output
CmdWaitDoneEarly(s) == s.proc = "exited"

\* cmd.Wait() would return: the subprocess has exited and its output is copied
CmdWaitDone(s) == s.proc = "exited" /\ ~s.pipe.full

\* the supervisor after a waitExit, at RestartPolicy.Next(exeErr)
Supervise(s) ==
    LET r == RPNext(s.RestartPolicy, s.err)
    IN  IF r.ok
        THEN [s EXCEPT !.RestartPolicy = r.rp, !.restartCounter = @ + 1,
                       !.proc = "running", !.copyDead = FALSE, !.sup = "wait2"]
        ELSE [ShellClean(s) EXCEPT !.RestartPolicy = r.rp, !.sup = "done"]

\* waitExit: cmd.Wait() has returned, cancel() runs the writer's Close, which
\* sends a non-empty buffer with sd.ch.Send
SupervisorFlush(w) ==
    /\ sw[w].sup \in {"wait1", "wait2"}
    /\ CmdWaitDone(sw[w])
    /\ sw[w].buf.full
    /\ sw' = [sw EXCEPT ![w].pipe = sw[w].buf,
                        ![w].buf = [full |-> FALSE, text |-> EmptyText],
                        ![w].flushed = @ + 1]
    /\ UNCHANGED <<outerVars, ectx, waits, stopper, waiter, disc, mu, sweeper, dsp, recv,
                   elog, bg, counters, fw>>

\* exeErr := waitExit() before the loop returns
SupervisorFirstExit(w) ==
    /\ sw[w].sup = "wait1"
    /\ CmdWaitDone(sw[w])
    /\ ~sw[w].buf.full
    /\ sw' = [sw EXCEPT ![w] = Supervise(@)]
    /\ UNCHANGED <<outerVars, ectx, waits, stopper, waiter, disc, mu, sweeper, dsp, recv,
                   elog, bg, counters, fw>>

\* exeErr = waitExit() in the loop returns, then the select on sd.ctx.Done()
SupervisorNextExit(w) ==
    /\ sw[w].sup = "wait2"
    /\ CmdWaitDone(sw[w])
    /\ ~sw[w].buf.full
    /\ sw' = [sw EXCEPT ![w] = IF @.ctx THEN [ShellClean(@) EXCEPT !.sup = "done"]
                                ELSE Supervise(@)]
    /\ UNCHANGED <<outerVars, ectx, waits, stopper, waiter, disc, mu, sweeper, dsp, recv,
                   elog, bg, counters, fw>>

\* the line task: case line, ok := <-rd with a line, on to ch.Send(l)
SplitReceive(w) ==
    /\ sw[w].split.pc = "select"
    /\ sw[w].pipe.full
    /\ ~sw[w].closed
    /\ sw' = [sw EXCEPT ![w].split = [pc |-> "send", text |-> sw[w].pipe.text],
                        ![w].pipe = [full |-> FALSE, text |-> EmptyText]]
    /\ UNCHANGED <<outerVars, ectx, waits, stopper, waiter, disc, mu, sweeper, dsp, recv,
                   elog, bg, counters, fw>>

\* the line task: <-sd.ctx.Done(), or sd.ch closed: clean, sd.wg.Done()
SplitReturn(w) ==
    /\ sw[w].split.pc = "select"
    /\ sw[w].ctx \/ sw[w].closed
    /\ sw' = [sw EXCEPT ![w] = [ShellClean(@) EXCEPT !.split.pc = "done"]]
    /\ UNCHANGED <<outerVars, ectx, waits, stopper, waiter, disc, mu, sweeper, dsp, recv,
                   elog, bg, counters, fw>>

\* the line task's ch.Send(l) meets the dispatch task's receive
ShellDeliver(w) ==
    /\ sw[w].split.pc = "send"
    /\ Receive(w, sw[w].split.text)
    /\ sw' = [sw EXCEPT ![w].split = [pc |-> "select", text |-> EmptyText],
                        ![w].linesCounter = @ + 1]
    /\ UNCHANGED <<outerVars, ectx, waits, stopper, waiter, disc, mu, sweeper, elog, bg,
                   counters, fw>>

(***************************************************************************)
(* The dispatch task's ways out of its loop.                               *)
(***************************************************************************)
\* case <-e.ctx.Done(): w.Action.Close() up to its wg.Wait()
DispatchCtxDone(w) ==
    /\ dsp[w].pc = "select"
    /\ ectx
    /\ dsp' = [dsp EXCEPT ![w].pc = "closing"]
    /\ fin' = [fin EXCEPT !.log = Append(@, [k |-> "watch", id |-> w])]
    /\ IF w \in FileWatches
       THEN fw' = [fw EXCEPT ![w] = FileFinish(@)] /\ UNCHANGED sw
       ELSE sw' = [sw EXCEPT ![w] = ShellClean(@)] /\ UNCHANGED fw
    /\ UNCHANGED <<unitVars, now, lim, addLog, rd, allow, lastJudge, cfg, start, ectx,
                   waits, stopper, waiter, disc, mu, sweeper, recv, elog, bg, counters>>

\* w.Action.Close(): wg.Wait() returns, the task returns
DispatchClosed(w) ==
    /\ dsp[w].pc = "closing"
    /\ IF w \in FileWatches THEN FileWgZero(w) ELSE ShellWgZero(w)
    /\ dsp' = [dsp EXCEPT ![w].pc = "exited"]
    /\ UNCHANGED <<outerVars, ectx, waits, stopper, waiter, disc, mu, sweeper, recv, elog,
                   bg, counters, fw, sw>>

\* case line, ok := <-ch with !ok: the watch's Line channel is closed
DispatchChanClosed(w) ==
    /\ dsp[w].pc = "select"
    /\ w \in FileWatches
    /\ fw[w].closed
    /\ dsp' = [dsp EXCEPT ![w].pc = "exited"]
    /\ UNCHANGED <<outerVars, ectx, waits, stopper, waiter, disc, mu, sweeper, recv, elog,
                   bg, counters, fw, sw>>

Errs == {"nil", "error"}

\* the steps of the program's own tasks
ProgramNext ==
    \/ \E w \in Watches : EngineStartWatch(w)
    \/ StopCancel
    \/ StopLimiterLock
    \/ StopLimiterWaited
    \/ WaitDispatch
    \/ \E d \in Disciplines : SweeperExit(d)
    \/ \E w \in Watches : DispatchJudge(w)
    \/ \E w \in Watches : DispatchJail(w)
    \/ \E w \in Watches : DispatchCtxDone(w)
    \/ \E w \in Watches : DispatchClosed(w)
    \/ \E w \in Watches : DispatchChanClosed(w)
    \/ \E w \in FileWatches \cap Watches : \E i \in 1..Len(Files(w)) : FileCtxDone(w, i)
    \/ \E w \in FileWatches \cap Watches : \E i \in 1..Len(Files(w)) : FileDeliver(w, i)
    \/ \E w \in FileWatches \cap Watches : \E i \in 1..Len(Files(w)) : FileSendFail(w, i)
    \/ \E w \in FileWatches \cap Watches : \E i \in 1..Len(Files(w)) : FileDefer(w, i)
    \/ \E w \in ShellWatches \cap Watches : PipeSendFail(w)
    \/ \E w \in ShellWatches \cap Watches : SupervisorFlush(w)
    \/ \E w \in ShellWatches \cap Watches : SupervisorFirstExit(w)
    \/ \E w \in ShellWatches \cap Watches : SupervisorNextExit(w)
    \/ \E w \in ShellWatches \cap Watches : SplitReceive(w)
    \/ \E w \in ShellWatches \cap Watches : SplitReturn(w)
    \/ \E w \in ShellWatches \cap Watches : ShellDeliver(w)

\* the operator's stop and wait
OperatorNext ==
    \/ StopBegin
    \/ WaitBegin

\* the ticker, the jails' targets, the tailed files, the subprocess
WorldNext ==
    \/ \E d \in Disciplines : SweeperTick(d)
    \/ \E w \in Watches : ArrestReturn(w)
    \/ \E t \in bg : BgArrestReturn(t)
    \/ \E w \in FileWatches \cap Watches : \E i \in 1..Len(Files(w)), text \in EngineTexts :
           FileRead(w, i, text)
    \/ \E w \in FileWatches \cap Watches : \E i \in 1..Len(Files(w)) : FileTailEnd(w, i)
    \/ \E w \in ShellWatches \cap Watches, text \in EngineTexts, nl \in BOOLEAN :
           ScriptWrite(w, text, nl)
    \/ \E w \in ShellWatches \cap Watches, err \in Errs : ScriptExit(w, err)

\* what the program's surroundings do
EnvironmentNext == OperatorNext \/ WorldNext

NextEngine == ProgramNext \/ EnvironmentNext

SpecEngine == InitEngine /\ [][NextEngine]_vars

(***************************************************************************)
(* Properties of the engine, read off the dispatch tasks' logs.            *)
(***************************************************************************)
\* the jails the configuration marks background: true
BackgroundJails == {"j2"}

\* the dispatch task is not in the middle of a line
AtRest(w) == dsp[w].pc \in {"none", "select", "closing", "exited"}

\* the Judge calls of a dispatch task, in the order made
Judged(w) == SelectSeq(elog[w], LAMBDA ev : ev.e = "judge")

\* the jails a dispatch task started for callback ci of line n, in the order started
Invoked(w, n, ci) ==
    SelectSeq(elog[w], LAMBDA ev : ev.e \in {"go", "call"} /\ ev.n = n /\ ev.ci = ci)

\* the jail an event of a dispatch task is about
JailOf(w, ev) == WatchList(w)[ev.ci].js[ev.ji]

\* the dispatch task has left callback ci of line n behind
Past(w, n, ci) == AtRest(w) \/ dsp[w].n # n \/ dsp[w].ci # ci

\* C1: every line a dispatch task received is judged exactly once by each
\* discipline attached to the watch, the lines in the order received and the
\* disciplines in the order attached, and every firing verdict is handed
\* exactly once to each jail of its discipline, in the order listed; a
\* verdict that does not fire reaches no jail.
C1_EachLineJudgedOnce ==
    \A w \in Watches :
        LET K == Len(WatchList(w))
            js == Judged(w)
        IN  /\ \A k \in 1..Len(js) :
                   /\ js[k].n = ((k - 1) \div K) + 1
                   /\ js[k].ci = ((k - 1) % K) + 1
            /\ Len(js) <= K * Len(recv[w])
            /\ AtRest(w) => Len(js) = K * Len(recv[w])
            /\ \A k \in 1..Len(js) :
                   LET st == Invoked(w, js[k].n, js[k].ci)
                       L == Len(WatchList(w)[js[k].ci].js)
                   IN  /\ ~js[k].ok => st = <<>>
                       /\ Len(st) <= L
                       /\ \A i \in 1..Len(st) : st[i].ji = i /\ st[i].bad = js[k].bad
                       /\ (js[k].ok /\ Past(w, js[k].n, js[k].ci)) => Len(st) = L
            /\ \A p \in 1..Len(elog[w]) :
                   elog[w][p].e \in {"go", "call"} =>
                       \E q \in 1..(p - 1) :
                           /\ elog[w][q].e = "judge"
                           /\ elog[w][q].n = elog[w][p].n
                           /\ elog[w][q].ci = elog[w][p].ci

\* two lines went through two disciplines, one verdict fired and reached all
\* three jails of its discipline
C1_Witness ==
    \E w \in Watches :
        /\ AtRest(w)
        /\ Len(recv[w]) = 2
        /\ Len(WatchList(w)) = 2
        /\ \E k \in 1..Len(Judged(w)) :
               /\ Judged(w)[k].ok
               /\ Len(Invoked(w, Judged(w)[k].n, Judged(w)[k].ci)) = 3
        /\ \E k \in 1..Len(Judged(w)) : ~Judged(w)[k].ok

\* C7: once Stop has returned and a Wait called after it has returned, no
\* runJail, in the dispatch task or on a task of its own, and no task of a
\* watch is running any more.
C7_StopDrains ==
    (stopper.pc = "done" /\ waiter.pc = "done" /\ waiter.afterStop) =>
        /\ bg = {}
        /\ \A w \in Watches : dsp[w].pc = "exited"
        /\ \A w \in Watches \cap FileWatches :
               \A i \in 1..Len(Files(w)) : fw[w].task[i].pc \in {"none", "done"}
        /\ \A w \in Watches \cap ShellWatches :
               sw[w].sup = "done" /\ sw[w].split.pc = "done"

\* C8: while Wait is blocked after Stop was called, some task of the program
\* can take a step, or an Arrest the dispatch task waits for can return.
C8_WaitReturns ==
    (stopper.pc # "idle" /\ waiter.pc = "finish") =>
        ENABLED (ProgramNext \/ \E w \in Watches : ArrestReturn(w))

\* C9: a jail not marked background is called on the dispatch task, the
\* next thing the task does is take its return, the jails of one verdict
\* are started in the order listed, and a later line is judged only after
\* the return.
C9_ForegroundInOrder ==
    \A w \in Watches :
        \A p \in 1..Len(elog[w]) :
            LET ev == elog[w][p]
            IN  (ev.e \in {"go", "call"} /\ JailOf(w, ev) \notin BackgroundJails) =>
                    /\ ev.e = "call"
                    /\ p < Len(elog[w]) =>
                           /\ elog[w][p + 1].e = "return"
                           /\ elog[w][p + 1].n = ev.n
                           /\ elog[w][p + 1].ci = ev.ci
                           /\ elog[w][p + 1].ji = ev.ji
                    /\ p = Len(elog[w]) =>
                           /\ dsp[w].pc = "arrest"
                           /\ dsp[w].n = ev.n /\ dsp[w].ci = ev.ci /\ dsp[w].ji = ev.ji
                    /\ \A q \in 1..(p - 1) :
                           (/\ elog[w][q].e \in {"go", "call"}
                            /\ elog[w][q].n = ev.n
                            /\ elog[w][q].ci = ev.ci) => elog[w][q].ji < ev.ji
                    /\ \A q \in 1..Len(elog[w]) :
                           (elog[w][q].e = "judge" /\ elog[w][q].n > ev.n) => q > p + 1

\* both foreground jails of a verdict were called and returned, j1 before j3,
\* and the next line was judged afterwards
C9_Witness ==
    \E w \in Watches :
        \E p1, p3, q \in 1..Len(elog[w]) :
            /\ p1 < p3 /\ p3 < q
            /\ elog[w][p1].e = "return" /\ JailOf(w, elog[w][p1]) = "j1"
            /\ elog[w][p3].e = "return" /\ JailOf(w, elog[w][p3]) = "j3"
            /\ elog[w][p1].n = elog[w][p3].n /\ elog[w][p1].ci = elog[w][p3].ci
            /\ elog[w][q].e = "judge" /\ elog[w][q].n > elog[w][p1].n

\* C10: a jail marked background is started on a task of its own and the
\* dispatch task never waits for its Arrest: it is never inside the Arrest
\* of such a jail, and every running background Arrest was started by a
\* dispatch task that has gone on.
C10_BackgroundNeverBlocks ==
    /\ \A w \in Watches :
           /\ dsp[w].pc = "arrest" =>
                  WatchList(w)[dsp[w].ci].js[dsp[w].ji] \notin BackgroundJails
           /\ \A p \in 1..Len(elog[w]) :
                  (elog[w][p].e \in {"go", "call"}
                       /\ JailOf(w, elog[w][p]) \in BackgroundJails) =>
                      elog[w][p].e = "go"
    /\ \A t \in bg :
           /\ WatchList(t.w)[t.ci].js[t.ji] \in BackgroundJails
           /\ \E p \in 1..Len(elog[t.w]) :
                  /\ elog[t.w][p].e = "go"
                  /\ elog[t.w][p].n = t.n /\ elog[t.w][p].ci = t.ci
                  /\ elog[t.w][p].ji = t.ji
           /\ ~(dsp[t.w].pc = "jail" /\ dsp[t.w].n = t.n /\ dsp[t.w].ci = t.ci
                    /\ dsp[t.w].ji = t.ji)

\* a background Arrest has not returned, and its dispatch task has since
\* called the next jail of the same verdict and judged the next line
C10_Witness ==
    \E t \in bg :
        \E p, q, r \in 1..Len(elog[t.w]) :
            /\ p < q /\ q < r
            /\ elog[t.w][p].e = "go" /\ elog[t.w][p].n = t.n
            /\ elog[t.w][p].ci = t.ci /\ elog[t.w][p].ji = t.ji
            /\ elog[t.w][q].e = "return" /\ elog[t.w][q].n = t.n
            /\ elog[t.w][q].ci = t.ci /\ elog[t.w][q].ji > t.ji
            /\ elog[t.w][r].e = "judge" /\ elog[t.w][r].n > t.n

\* the jails whose Arrest returns an error
FailingJails == {"j3"}

\* the positions of the dispatch tasks' logs
Events == UNION {{<<w, p>> : p \in 1..Len(elog[w])} : w \in Watches}

\* the jail invocations whose Arrest has returned, on the dispatch task or on
\* a task of its own
Returned ==
    {x \in Events :
        LET ev == elog[x[1]][x[2]]
        IN  \/ ev.e = "return"
            \/ /\ ev.e = "go"
               /\ [w |-> x[1], n |-> ev.n, ci |-> ev.ci, ji |-> ev.ji] \notin bg}

\* C15: an Arrest that returns an error adds one to total_arrest_fail and
\* nothing to total_arrest_success (and a nil return the other way round);
\* the jail is not invoked again for that verdict, the jails listed after it
\* are still invoked for the same verdict, and the lines received after it
\* are still judged.
C15_ArrestFailureGoesOn ==
    /\ counters.fail =
           Cardinality({x \in Returned : JailOf(x[1], elog[x[1]][x[2]]) \in FailingJails})
    /\ counters.success =
           Cardinality({x \in Returned :
                           JailOf(x[1], elog[x[1]][x[2]]) \notin FailingJails})
    /\ \A w \in Watches :
           \A p \in 1..Len(elog[w]) :
               LET ev == elog[w][p]
                   L == Len(WatchList(w)[ev.ci].js)
               IN  (ev.e = "return" /\ JailOf(w, ev) \in FailingJails) =>
                       /\ ~ev.ok
                       /\ \A q \in 1..Len(elog[w]) :
                              (q # p - 1 /\ elog[w][q].e \in {"go", "call"}) =>
                                  ~(elog[w][q].n = ev.n /\ elog[w][q].ci = ev.ci
                                        /\ elog[w][q].ji = ev.ji)
                       /\ ev.ji < L =>
                              \/ /\ dsp[w].pc = "jail" /\ dsp[w].n = ev.n
                                 /\ dsp[w].ci = ev.ci /\ dsp[w].ji = ev.ji + 1
                              \/ /\ p < Len(elog[w])
                                 /\ elog[w][p + 1].e \in {"go", "call"}
                                 /\ elog[w][p + 1].n = ev.n
                                 /\ elog[w][p + 1].ci = ev.ci
                                 /\ elog[w][p + 1].ji = ev.ji + 1
                       /\ Past(w, ev.n, ev.ci) =>
                              Len(Invoked(w, ev.n, ev.ci)) = L
                       /\ \A m \in (ev.n + 1)..Len(recv[w]) :
                              (AtRest(w) \/ dsp[w].n > m) =>
                                  \A ci \in 1..Len(WatchList(w)) :
                                      \E q \in (p + 1)..Len(elog[w]) :
                                          /\ elog[w][q].e = "judge"
                                          /\ elog[w][q].n = m
                                          /\ elog[w][q].ci = ci

\* an Arrest failed, the jails after it were invoked for the same verdict, a
\* later line was judged, and both counters have counted
C15_Witness ==
    \E w \in Watches :
        \E p, q, r \in 1..Len(elog[w]) :
            /\ p < q /\ q < r
            /\ elog[w][p].e = "return" /\ ~elog[w][p].ok
            /\ elog[w][q].e = "call" /\ elog[w][q].n = elog[w][p].n
            /\ elog[w][q].ci = elog[w][p].ci /\ elog[w][q].ji > elog[w][p].ji
            /\ elog[w][r].e = "judge" /\ elog[w][r].n > elog[w][p].n
            /\ counters.fail = 1 /\ counters.success >= 1

\* C19: with the policy once, the supervisor's first Next call after the
\* initial run returns true and every later one false: once the first run
\* of the script has ended and the supervisor has dealt with it, the script
\* has been restarted, and it is restarted exactly once however many runs
\* end.
C19_OnceRestartsOnce ==
    \A w \in ShellWatches :
        (/\ ~sw[w].RestartPolicy.always
         /\ ~sw[w].RestartPolicy.exitOnFail
         /\ sw[w].sup \in {"wait2", "done"}) =>
            sw[w].restartCounter = 1

\* C21: with a backoff, a policy that restarts whatever the exit does not
\* sleep before the first restart of the script and sleeps once before each
\* later restart: the sleeps are one fewer than the restarts.
C21_FirstRestartNoBackoff ==
    \A w \in ShellWatches :
        (/\ sw[w].RestartPolicy.backoff > 0
         /\ ~sw[w].RestartPolicy.exitOnFail
         /\ sw[w].restartCounter >= 1) =>
            sw[w].RestartPolicy.slept = sw[w].restartCounter - 1

\* C22: with the policy on-success and a backoff, two restarts in a row of a
\* script that exits without an error are a backoff apart: by the second
\* restart the policy has slept, and once more for each restart after it.
C22_OnSuccessBackoff ==
    \A w \in ShellWatches :
        (/\ sw[w].RestartPolicy.backoff > 0
         /\ sw[w].RestartPolicy.exitOnFail
         /\ sw[w].restartCounter >= 2) =>
            sw[w].RestartPolicy.slept >= sw[w].restartCounter - 1

\* C23: while nobody stops the engine, the lines a shell watch's dispatch
\* task receives are the lines the script wrote, each once and in the order
\* written, a last line without a newline included; when the supervisor and
\* the line task have ended none is missing; and with the policy on-success
\* the run that ends with an error is not restarted.
C23_ShellLinesDelivered ==
    \A w \in ShellWatches \cap Watches :
        stopper.pc = "idle" =>
            /\ Len(recv[w]) <= Len(sw[w].written)
            /\ \A k \in 1..Len(recv[w]) : recv[w][k] = NewLine(w, sw[w].written[k])
            /\ (sw[w].sup = "done" /\ sw[w].split.pc = "done") =>
                   Len(recv[w]) = Len(sw[w].written)
            /\ (sw[w].RestartPolicy.exitOnFail /\ sw[w].sup = "done") =>
                   /\ sw[w].err = "error"
                   /\ sw[w].restartCounter = sw[w].exits - 1

\* an on-success script wrote a line and then a line without a newline and
\* exited with an error: both lines were received, the watch's tasks have
\* ended, and the script was not restarted
C23_Witness ==
    \E w \in ShellWatches \cap Watches :
        /\ stopper.pc = "idle"
        /\ sw[w].RestartPolicy.exitOnFail
        /\ sw[w].sup = "done" /\ sw[w].split.pc = "done"
        /\ sw[w].err = "error" /\ sw[w].restartCounter = 0
        /\ sw[w].flushed = 1
        /\ Len(sw[w].written) = 2
        /\ Len(recv[w]) = 2

\* C24: ShellWatch.Close returns whatever the subprocess does: while the
\* dispatch task is inside Close, after sd.clean() and with the line task
\* gone, the supervisor or Close itself can take a step without the
\* subprocess exiting or writing on its own.
C24_CloseKillsSubprocess ==
    \A w \in ShellWatches \cap Watches :
        (dsp[w].pc = "closing" /\ sw[w].split.pc = "done") =>
            ENABLED (\/ PipeSendFail(w)
                     \/ SupervisorFlush(w)
                     \/ SupervisorFirstExit(w)
                     \/ SupervisorNextExit(w)
                     \/ DispatchClosed(w))

\* every task of the watch has run and ended
Finalized(w) ==
    IF w \in FileWatches
    THEN \A i \in 1..Len(Files(w)) : fw[w].task[i].pc = "done"
    ELSE sw[w].sup = "done" /\ sw[w].split.pc = "done"

\* C25: a watch's Line channel is closed when the watch finalizes, file
\* watch and shell watch alike: once every task of the watch has ended, a
\* dispatch task waiting on the channel finds it closed.
C25_LineChannelClosed ==
    \A w \in Watches :
        (Finalized(w) /\ dsp[w].pc = "select") => ENABLED DispatchChanClosed(w)

\* C35: Limiter.Stop always returns: while Stop waits in c.wg.Wait() the
\* sweeper task it cancelled has exited or can take its ctx.Done() branch
\* and exit, so that the wait ends, whatever tick came in between.
C35_LimiterStopReturns ==
    stopper.pc = "wgwait" =>
        LET d == Cancels[stopper.i].d
        IN  sweeper[d].pc = "none" \/ ENABLED SweeperExit(d)

\* C38: once ShellWatch.Close has been called the supervisor starts no
\* subprocess: in no step taken while the dispatch task is inside Close does
\* a subprocess of the watch start running.
C38_NoExecuteAfterClose ==
    [][\A w \in ShellWatches \cap Watches :
           dsp[w].pc = "closing" =>
               ~(sw[w].proc # "running" /\ sw'[w].proc = "running")]_vars

\* C39: after the engine's Stop has returned and a Wait called after it has
\* returned, no limiter's sweeper task is running, for any discipline.
C39_NoSweeperAfterStop ==
    (stopper.pc = "done" /\ waiter.pc = "done" /\ waiter.afterStop) =>
        \A d \in Disciplines : sweeper[d].pc = "none"

(***************************************************************************)
(* SpecStart: Start with a watch whose Watch returns an error.             *)
(* Engine.Start starts the watches in the order of a map iteration and     *)
(* returns the first error; Start then runs StopAndWait and returns it.    *)
(***************************************************************************)
\* the values of cfg.Disciplines: one discipline on a file watch and a shell watch
CfgStart ==
    {<<[ID |-> "d1", Watches |-> <<"wf", "ws">>, Jails |-> <<"j1", "j2">>,
        Rate |-> NewLimiter(1, 1)]>>}

InitStart ==
    /\ cfg \in CfgStart
    /\ \E w \in FileWatches \cup ShellWatches : start = [PlainStart EXCEPT !.fail = w]
    /\ start.fail \in Watches
    /\ Wired
    /\ \E policy \in {"always", "once"} :
          sw = [w \in ShellWatches |-> NewShellWatch(policy)]

\* startWatch: w.Action.Watch returns an error (FileWatch.watch: fd.tail fails
\* and fd.cancel.Finish() runs; ShellWatch.watch: execute fails and sd.clean()
\* runs); Engine.Start returns it and Start calls StopAndWait, which begins
\* with Stop
WatchFail(w) ==
    /\ start.pc = "run"
    /\ w = start.fail
    /\ \A i \in 1..Len(waits) : waits[i] # w
    /\ stopper.pc = "idle"
    /\ IF w \in FileWatches
       THEN fw' = [fw EXCEPT ![w] = FileFinish(@)] /\ UNCHANGED sw
       ELSE sw' = [sw EXCEPT ![w] =
                      ShellClean([@ EXCEPT !.RestartPolicy = RPNext(@, "nil").rp])]
            /\ UNCHANGED fw
    /\ start' = [start EXCEPT !.pc = "failed"]
    /\ stopper' = [stopper EXCEPT !.pc = "finish", !.i = Len(Cancels)]
    /\ UNCHANGED <<unitVars, now, lim, addLog, rd, allow, lastJudge, cfg, fin, ectx,
                   waits, waiter, disc, mu, sweeper, dsp, recv, elog, bg, counters>>

\* StopAndWait: Stop has returned, Wait begins
StartWait ==
    /\ start.pc = "failed"
    /\ stopper.pc = "done"
    /\ waiter.pc = "idle"
    /\ waiter' = IF waits = <<>>
                 THEN [waiter EXCEPT !.pc = "done", !.afterStop = TRUE]
                 ELSE [waiter EXCEPT !.pc = "finish", !.i = Len(waits), !.afterStop = TRUE]
    /\ UNCHANGED <<outerVars, ectx, waits, stopper, disc, mu, sweeper, dsp, recv, elog,
                   bg, counters, fw, sw>>

\* StopAndWait has returned: Start returns the error
StartReturn ==
    /\ start.pc = "failed"
    /\ waiter.pc = "done"
    /\ start' = [start EXCEPT !.pc = "returned"]
    /\ UNCHANGED <<unitVars, now, lim, addLog, rd, allow, lastJudge, cfg, fin, ectx,
                   waits, stopper, waiter, disc, mu, sweeper, dsp, recv, elog, bg,
                   counters, fw, sw>>

NextStart ==
    \/ ProgramNext
    \/ WorldNext
    \/ \E w \in Watches : WatchFail(w)
    \/ StartWait
    \/ StartReturn

SpecStart == InitStart /\ [][NextStart]_vars

\* C11: when Start returns the error of a watch that failed to start, the
\* engine's context is cancelled, no dispatch task is running, and every task
\* of every watch that had been started has exited.
C11_StartAllOrNothing ==
    start.pc = "returned" =>
        /\ ectx
        /\ \A w \in Watches : dsp[w].pc \in {"none", "exited"}
        /\ \A w \in Watches \cap FileWatches :
               \A i \in 1..Len(Files(w)) : fw[w].task[i].pc \in {"none", "done"}
        /\ \A w \in Watches \cap ShellWatches :
               sw[w].sup \in {"none", "done"} /\ sw[w].split.pc \in {"none", "done"}

(***************************************************************************)
(* SpecStop: the engine with the stats server (StartStatServer), whose     *)
(* Close is a finisher of Engine.cancels and whose task Engine.Wait waits  *)
(* for last.                                                               *)
(***************************************************************************)
InitStop ==
    /\ cfg \in CfgDisciplines
    /\ start = [PlainStart EXCEPT !.stat = TRUE]
    /\ Wired
    /\ \E policy \in {"always", "once"} :
          sw = [w \in ShellWatches |-> NewShellWatch(policy)]

\* the finisher is the stats server's: server.Close(), ListenAndServe returns
StopServerClose ==
    /\ stopper.pc = "finish"
    /\ Cancels[stopper.i].f = "server"
    /\ fin' = [fin EXCEPT !.http = "closed", !.log = Append(@, [k |-> "http", id |-> ""])]
    /\ stopper' = AfterFinisher(stopper)
    /\ UNCHANGED <<unitVars, now, lim, addLog, rd, allow, lastJudge, cfg, start, ectx,
                   waits, waiter, disc, mu, sweeper, dsp, recv, elog, bg, counters, fw,
                   sw>>

\* Engine.Wait: the finisher is the wg.Wait of the stats server's task
WaitServer ==
    /\ waiter.pc = "finish"
    /\ waits[waiter.i] = "http"
    /\ fin.http = "closed"
    /\ waiter' = AfterFinisher(waiter)
    /\ UNCHANGED <<outerVars, ectx, waits, stopper, disc, mu, sweeper, dsp, recv, elog,
                   bg, counters, fw, sw>>

NextStop ==
    \/ NextEngine
    \/ StopServerClose
    \/ WaitServer

SpecStop == InitStop /\ [][NextStop]_vars

\* the place of a Close call in the order the claim gives
CloseRank(k) ==
    CASE k = "http" -> 1 [] k = "watch" -> 2 [] k = "discipline" -> 3 [] k = "jail" -> 4

\* every jail of the configuration
CfgJails ==
    UNION {{cfg[i].Jails[k] : k \in 1..Len(cfg[i].Jails)} : i \in 1..Len(cfg)}

\* C12: the Close calls come in the order stats server, watches, disciplines,
\* jails, and once Stop has returned the server, every watch, every
\* discipline and every jail has had its Close called.
C12_StopOrder ==
    /\ \A p, q \in 1..Len(fin.log) :
           p < q => CloseRank(fin.log[p].k) <= CloseRank(fin.log[q].k)
    /\ stopper.pc = "done" =>
           /\ start.stat => \E p \in 1..Len(fin.log) : fin.log[p].k = "http"
           /\ \A w \in Watches :
                  \E p \in 1..Len(fin.log) : fin.log[p] = [k |-> "watch", id |-> w]
           /\ \A d \in Disciplines :
                  \E p \in 1..Len(fin.log) : fin.log[p] = [k |-> "discipline", id |-> d]
           /\ \A j \in CfgJails :
                  \E p \in 1..Len(fin.log) : fin.log[p] = [k |-> "jail", id |-> j]

(***************************************************************************)
(* SpecTest: Start in test mode (test is a discipline's id).  Nobody calls *)
(* stop; the tailed files end and the script exits.                        *)
(***************************************************************************)
\* the values of cfg.Disciplines: two disciplines on two watches, or on one
CfgTest ==
    {<<[ID |-> "d1", Watches |-> <<"wf">>, Jails |-> <<"j1", "j2", "j3">>,
        Rate |-> NewLimiter(1, 1)],
       [ID |-> "d2", Watches |-> <<"ws">>, Jails |-> <<"j2">>,
        Rate |-> NewLimiter(1, 1)]>>,
     <<[ID |-> "d1", Watches |-> <<"wf">>, Jails |-> <<"j1", "j2", "j3">>,
        Rate |-> NewLimiter(1, 1)],
       [ID |-> "d2", Watches |-> <<"wf">>, Jails |-> <<"j2">>,
        Rate |-> NewLimiter(2, 1)]>>}

InitTest ==
    /\ cfg \in CfgTest
    /\ \E d \in Disciplines : start = [PlainStart EXCEPT !.test = d]
    /\ Wired
    /\ \E policy \in {"always", "on-success", "once"} :
          sw = [w \in ShellWatches |-> NewShellWatch(policy)]

\* the steps of the program's own tasks that can be taken when nobody calls stop
TestProgramNext ==
    \/ \E w \in Watches : EngineStartWatch(w)
    \/ WaitDispatch
    \/ \E w \in Watches : DispatchJudge(w)
    \/ \E w \in Watches : DispatchJail(w)
    \/ \E w \in Watches : DispatchChanClosed(w)
    \/ \E w \in FileWatches \cap Watches : \E i \in 1..Len(Files(w)) : FileDeliver(w, i)
    \/ \E w \in FileWatches \cap Watches : \E i \in 1..Len(Files(w)) : FileDefer(w, i)
    \/ \E w \in ShellWatches \cap Watches : SupervisorFlush(w)
    \/ \E w \in ShellWatches \cap Watches : SupervisorFirstExit(w)
    \/ \E w \in ShellWatches \cap Watches : SplitReceive(w)
    \/ \E w \in ShellWatches \cap Watches : SplitReturn(w)
    \/ \E w \in ShellWatches \cap Watches : ShellDeliver(w)

\* the caller's wait, the ticker, the echo jail, the files, the script
TestWorldNext ==
    \/ WaitBegin
    \/ \E d \in Disciplines : SweeperTick(d)
    \/ \E w \in Watches : ArrestReturn(w)
    \/ \E w \in FileWatches \cap Watches : \E i \in 1..Len(Files(w)), text \in EngineTexts :
           FileRead(w, i, text)
    \/ \E w \in FileWatches \cap Watches : \E i \in 1..Len(Files(w)) : FileTailEnd(w, i)
    \/ \E w \in ShellWatches \cap Watches, text \in EngineTexts, nl \in BOOLEAN :
           ScriptWrite(w, text, nl)
    \/ \E w \in ShellWatches \cap Watches, err \in Errs : ScriptExit(w, err)

NextTest == TestProgramNext \/ TestWorldNext

SpecTest == InitTest /\ [][NextTest]_vars

\* the watches the configuration lists for discipline d
CfgWatchesOf(d) ==
    UNION {{cfg[i].Watches[k] : k \in 1..Len(cfg[i].Watches)} :
              i \in {x \in 1..Len(cfg) : cfg[x].ID = d}}

\* C13: in test mode only the watches of the discipline under test are
\* started, the shell watches among them with their restart policy stopped;
\* every Judge call is that discipline's, no other discipline has seen a line;
\* every firing verdict goes to the echo jail test-config, once, on the
\* dispatch task, and to no jail of the configuration.
C13_TestModeWiring ==
    start.test # "" =>
        /\ \A i \in 1..Len(waits) : waits[i] \in CfgWatchesOf(start.test)
        /\ \A w \in ShellWatches :
               sw[w].sup # "none" =>
                   /\ w \in CfgWatchesOf(start.test)
                   /\ ~sw[w].RestartPolicy.started
                   /\ sw[w].restartCounter = 0
        /\ \A w \in FileWatches :
               fw[w].task[1].pc # "none" => w \in CfgWatchesOf(start.test)
        /\ \A d \in Disciplines \ {start.test} :
               disc[d].tailLinesCount = 0 /\ ~disc[d].Rate.cancel
        /\ \A w \in Watches :
               /\ \A p \in 1..Len(elog[w]) :
                      /\ WatchList(w)[elog[w][p].ci].d = start.test
                      /\ elog[w][p].e \in {"go", "call", "return"} =>
                             /\ JailOf(w, elog[w][p]) = "test-config"
                             /\ JailOf(w, elog[w][p]) \notin CfgJails
                             /\ elog[w][p].e # "go"
               /\ \A k \in 1..Len(Judged(w)) :
                      (Judged(w)[k].ok /\ Past(w, Judged(w)[k].n, Judged(w)[k].ci)) =>
                          Len(Invoked(w, Judged(w)[k].n, Judged(w)[k].ci)) = 1
        /\ bg = {}

\* in test mode a verdict fired and the echo jail returned, with another
\* discipline configured on the same watch
C13_Witness ==
    /\ start.test # ""
    /\ \E w \in Watches :
           /\ \E d \in Disciplines \ {start.test} : w \in CfgWatchesOf(d)
           /\ \E p \in 1..Len(elog[w]) :
                  elog[w][p].e = "return" /\ JailOf(w, elog[w][p]) = "test-config"

\* every watch started has used up its input: the tailed files are at their
\* end and the tasks gone, the script has exited, its lines are dispatched and
\* the watch's two tasks are gone
Exhausted ==
    /\ Started
    /\ \A w \in Watches \cap FileWatches :
           \A i \in 1..Len(Files(w)) : fw[w].task[i].pc = "done"
    /\ \A w \in Watches \cap ShellWatches :
           /\ sw[w].proc = "exited" /\ ~sw[w].pipe.full
           /\ sw[w].sup = "done" /\ sw[w].split.pc = "done"
    /\ \A w \in Watches : AtRest(w)

\* C14: in test mode, with stop never called, once every watch has used up
\* its input a Wait that was called has returned or a task of the program
\* can still take a step towards it.
C14_TestWaitReturns ==
    (start.test # "" /\ stopper.pc = "idle" /\ waiter.pc = "finish" /\ Exhausted) =>
        ENABLED TestProgramNext

(***************************************************************************)
(* SpecJails: the Arrest of each jail type (jail.go), called any number of *)
(* times with the command, request or mail succeeding or failing.  A       *)
(* jail's counters are jailSuccessCounter and jailFailCounter where the    *)
(* type has them; invoked counts the Arrest calls.                         *)
(***************************************************************************)
MaxArrests == 3

JailTypes == {"nftset", "echo", "log", "shell", "http", "mail"}

\* the jail as its constructor leaves it
NewJail == [success |-> 0, fail |-> 0, invoked |-> 0]

\* what Arrest returns when the jail's command, request or mail ends with err:
\* EchoJail and LogJail run nothing and return nil
ArrestResult(type, err) == IF type \in {"echo", "log"} THEN "nil" ELSE err

\* Arrest's effect on the jail's own counters
Arrest(type, j, err) ==
    IF type \in {"nftset", "shell"}
    THEN IF err # "nil" THEN [j EXCEPT !.fail = @ + 1] ELSE [j EXCEPT !.success = @ + 1]
    ELSE IF type \in {"echo", "log"}
    THEN [j EXCEPT !.success = @ + 1]
    ELSE j

InitJails ==
    /\ now = 0
    /\ lim = NilLimiter
    /\ addLog = <<>>
    /\ rd = NoDiscipline
    /\ allow = <<>>
    /\ lastJudge = NoJudge
    /\ NoEngine
    /\ NoIO
    /\ contains = NoContains
    /\ restart = ZeroRestartPolicy
    /\ nextLog = <<>>
    /\ jc = [type \in JailTypes |-> NewJail]

\* j.Action.Arrest(bad, logger) on a jail of the type
JailArrest(type, err) ==
    /\ \A t \in JailTypes : jc[t].invoked < MaxArrests
    /\ jc' = [jc EXCEPT ![type] = [Arrest(type, @, ArrestResult(type, err))
                                      EXCEPT !.invoked = @ + 1]]
    /\ UNCHANGED <<now, limVars, judgeVars, cfg, start, fin, ectx, waits, stopper, waiter,
                   disc, mu, sweeper, dsp, recv, elog, bg, counters, fw, sw, contains,
                   restart, nextLog, ioVars, dataVars>>

NextJails == \E type \in JailTypes, err \in {"nil", "error"} : JailArrest(type, err)

SpecJails == InitJails /\ [][NextJails]_vars

\* C16: every invocation of a jail, whatever its type, adds one to exactly
\* one of that jail's own success and fail counters.
C16_EveryArrestCounted ==
    [][\A type \in JailTypes :
           jc'[type].invoked = jc[type].invoked + 1 =>
               \/ /\ jc'[type].success = jc[type].success + 1
                  /\ jc'[type].fail = jc[type].fail
               \/ /\ jc'[type].success = jc[type].success
                  /\ jc'[type].fail = jc[type].fail + 1]_vars

(***************************************************************************)
(* SpecAllows: Allows.Contains (config.go) on any allow list of up to two  *)
(* networks and any of a few addresses of every class.                     *)
(***************************************************************************)
AllowNets ==
    {CIDR(<<10, 0, 0, 0>>, 8), CIDR(<<192, 168, 0, 0>>, 16), CIDR(<<1, 1, 1, 1>>, 32),
     CIDR(<<224, 0, 0, 0>>, 24)}

\* UnmarshalYAML keeps a network once
AllowsOptions ==
    {<<>>} \cup {<<l>> : l \in AllowNets}
        \cup {<<p[1], p[2]>> : p \in {q \in AllowNets \X AllowNets : q[1] # q[2]}}

Addresses ==
    {<<0, 0, 0, 0>>, <<127, 0, 0, 1>>, <<127, 255, 0, 9>>, <<224, 0, 0, 1>>,
     <<239, 255, 255, 255>>, <<10, 1, 2, 3>>, <<11, 0, 0, 1>>, <<192, 168, 7, 7>>,
     <<192, 169, 0, 1>>, <<1, 1, 1, 1>>, <<1, 1, 1, 2>>, <<255, 255, 255, 255>>}

InitAllows ==
    /\ now = 0
    /\ lim = NilLimiter
    /\ addLog = <<>>
    /\ rd = NoDiscipline
    /\ allow \in AllowsOptions
    /\ lastJudge = NoJudge
    /\ NoEngine
    /\ NoIO
    /\ contains = NoContains
    /\ restart = ZeroRestartPolicy
    /\ nextLog = <<>>
    /\ jc = <<>>

\* allow.Contains(ip)
DoContains(q) ==
    /\ contains' = [called |-> TRUE, a |-> allow, ip |-> ParseIP(q),
                    ok |-> AllowsContains(allow, ParseIP(q))]
    /\ UNCHANGED <<now, limVars, judgeVars, cfg, start, fin, ectx, waits, stopper, waiter,
                   disc, mu, sweeper, dsp, recv, elog, bg, counters, fw, sw, restart,
                   nextLog, jc, ioVars, dataVars>>

NextAllows == \E q \in Addresses : DoContains(q)

SpecAllows == InitAllows /\ [][NextAllows]_vars

\* C17: A.Contains(ip) is true whenever ip is a loopback, the unspecified or
\* a multicast address, and otherwise exactly when some network of A covers
\* ip.
C17_ContainsReserved ==
    contains.called =>
        (contains.ok <=>
            \/ IsLoopback(contains.ip)
            \/ IsUnspecified(contains.ip)
            \/ IsMulticast(contains.ip)
            \/ \E i \in 1..Len(contains.a) : IPNetContains(contains.a[i], contains.ip))

(***************************************************************************)
(* SpecRestart: one RestartPolicy (utils.go) of any policy, with or        *)
(* without backoff, and any sequence of Next and Stop calls on it.         *)
(***************************************************************************)
MaxCalls == 4
MaxSends == 2
MaxInput == 6
MaxChunk == 3
\* the size at which Write flushes a buffer without a newline, 24*1024 in the
\* source, scaled down
FlushBytes == 3
MaxCap == 3
MaxBlock == 4
MaxWritten == 6
MaxWrites == 3
MaxCacheCap == 2
MaxCacheCalls == 4
MaxDocs == 2

Policies == {"always", "on-success", "once"}

InitRestart ==
    /\ now = 0
    /\ lim = NilLimiter
    /\ addLog = <<>>
    /\ rd = NoDiscipline
    /\ allow = <<>>
    /\ lastJudge = NoJudge
    /\ NoEngine
    /\ NoIO
    /\ contains = NoContains
    /\ \E policy \in Policies, backoff \in {0, 1} :
          restart = NewRestartPolicy(policy, backoff)
    /\ nextLog = <<>>
    /\ jc = <<>>

\* rp.Next(err)
RestartNext(err) ==
    /\ Len(nextLog) < MaxCalls
    /\ LET r == RPNext(restart, err)
       IN  /\ restart' = r.rp
           /\ nextLog' = Append(nextLog, [op |-> "Next", err |-> err, ok |-> r.ok])
    /\ UNCHANGED <<now, limVars, judgeVars, cfg, start, fin, ectx, waits, stopper, waiter,
                   disc, mu, sweeper, dsp, recv, elog, bg, counters, fw, sw, contains, jc,
                   ioVars, dataVars>>

\* rp.Stop()
RestartStop ==
    /\ Len(nextLog) < MaxCalls
    /\ restart' = RPStop(restart)
    /\ nextLog' = Append(nextLog, [op |-> "Stop", err |-> "nil", ok |-> FALSE])
    /\ UNCHANGED <<now, limVars, judgeVars, cfg, start, fin, ectx, waits, stopper, waiter,
                   disc, mu, sweeper, dsp, recv, elog, bg, counters, fw, sw, contains, jc,
                   ioVars, dataVars>>

NextRestart ==
    \/ \E err \in {"nil", "error"} : RestartNext(err)
    \/ RestartStop

SpecRestart == InitRestart /\ [][NextRestart]_vars

\* Stop was called before call i
StoppedBefore(i) == \E k \in 1..(i - 1) : nextLog[k].op = "Stop"

\* C18: while an on-success policy is not stopped, Next(prev_err) is true
\* exactly when prev_err is nil, on every call: a run that ended with an
\* error is not restarted, a run that ended without one is.
C18_OnSuccess ==
    restart.exitOnFail =>
        \A i \in 1..Len(nextLog) :
            (nextLog[i].op = "Next" /\ ~StoppedBefore(i)) =>
                (nextLog[i].ok <=> nextLog[i].err = "nil")

\* an on-success policy has answered no after an error and yes after a
\* success that came later
C18_Witness ==
    /\ restart.exitOnFail
    /\ \E i, k \in 1..Len(nextLog) :
           /\ i < k
           /\ ~StoppedBefore(k)
           /\ nextLog[i].op = "Next" /\ nextLog[i].err = "error" /\ ~nextLog[i].ok
           /\ nextLog[k].op = "Next" /\ nextLog[k].err = "nil" /\ nextLog[k].ok

\* C20: once Stop has been called, every Next returns false whatever the
\* policy and prev_err; until then the always policy returns true on every
\* call.
C20_StopEndsRestarts ==
    \A i \in 1..Len(nextLog) :
        nextLog[i].op = "Next" =>
            /\ StoppedBefore(i) => ~nextLog[i].ok
            /\ (restart.always /\ ~StoppedBefore(i)) => nextLog[i].ok

\* an always policy has answered yes after an error, was stopped, and has
\* then answered no after a success
C20_Witness ==
    /\ restart.always
    /\ \E i, k \in 1..Len(nextLog) :
           /\ i < k
           /\ StoppedBefore(k) /\ ~StoppedBefore(i)
           /\ nextLog[i].op = "Next" /\ nextLog[i].err = "error" /\ nextLog[i].ok
           /\ nextLog[k].op = "Next" /\ nextLog[k].err = "nil" /\ ~nextLog[k].ok

(***************************************************************************)
(* SpecFiles: Start with one discipline on the file watch wf, whose        *)
(* FileWatch.watch is followed file by file: some configured files may     *)
(* be missing, with skip_when_file_not_exists set or not, and the tasks    *)
(* of the files already started run while watch() is still in its loop.    *)
(***************************************************************************)
CfgFiles ==
    {<<[ID |-> "d1", Watches |-> <<"wf">>, Jails |-> <<"j1">>,
        Rate |-> NewLimiter(1, 1)]>>}

\* the values of FileWatch.Files
FileLists == {<<"f1">>, <<"f1", "f2">>}

InitFiles ==
    /\ cfg \in CfgFiles
    /\ \E files \in FileLists, skip \in BOOLEAN :
          \E missing \in SUBSET {files[i] : i \in 1..Len(files)} :
              start = [PlainStart EXCEPT !.files = files, !.missing = missing,
                                         !.skip = skip]
    /\ Wired
    /\ sw = [w \in ShellWatches |-> NewShellWatch("once")]

\* startWatch calls w.Action.Watch: ch := NewChan[Line](0),
\* fd.cancel.Push(ch.Close), the loop is at the first file
WatchCall(w) ==
    /\ start.pc = "run"
    /\ stopper.pc = "idle" /\ waiter.pc = "idle"
    /\ fw[w].next = 0
    /\ fw' = [fw EXCEPT ![w].next = 1]
    /\ UNCHANGED <<outerVars, ectx, waits, stopper, waiter, disc, mu, sweeper, dsp, recv,
                   elog, bg, counters, sw>>

\* one turn of the loop over fd.Files.  A missing file is passed over when
\* SkipWhenFileNotExists is set; otherwise fd.tail fails after its three
\* tries, fd.cancel.Finish() runs, watch returns the error, Engine.Start
\* returns it and Start calls StopAndWait, which begins with Stop.  A file
\* that is there gets its tail, fd.wg.Add(1), fd.wgCount.Add(1) and its task
WatchFile(w) ==
    /\ start.pc = "run"
    /\ fw[w].next \in 1..Len(Files(w))
    /\ LET i == fw[w].next
       IN  IF Files(w)[i] \in start.missing
           THEN IF start.skip
                THEN /\ fw' = [fw EXCEPT ![w].next = i + 1]
                     /\ UNCHANGED <<start, stopper>>
                ELSE /\ fw' = [fw EXCEPT ![w] = FileFinish(@)]
                     /\ start' = [start EXCEPT !.pc = "failed"]
                     /\ stopper' = [stopper EXCEPT !.pc = "finish", !.i = Len(Cancels)]
           ELSE /\ fw' = [fw EXCEPT ![w].next = i + 1,
                                    ![w].wgCount = @ + 1,
                                    ![w].task[i] = [pc |-> "select", text |-> EmptyText]]
                /\ UNCHANGED <<start, stopper>>
    /\ UNCHANGED <<unitVars, now, lim, addLog, rd, allow, lastJudge, cfg, fin, ectx,
                   waits, waiter, disc, mu, sweeper, dsp, recv, elog, bg, counters, sw>>

\* watch returns ch.Reader(); startWatch starts the dispatch task and pushes
\* its wg.Wait on e.waits
WatchReturn(w) ==
    /\ start.pc = "run"
    /\ fw[w].next = Len(Files(w)) + 1
    /\ \A i \in 1..Len(waits) : waits[i] # w
    /\ dsp' = [dsp EXCEPT ![w].pc = "select"]
    /\ waits' = Append(waits, w)
    /\ UNCHANGED <<outerVars, ectx, stopper, waiter, disc, mu, sweeper, recv, elog, bg,
                   counters, fw, sw>>

\* the steps of the program's own tasks
FilesProgramNext ==
    \/ \E w \in FileWatches \cap Watches : WatchCall(w)
    \/ \E w \in FileWatches \cap Watches : WatchFile(w)
    \/ \E w \in FileWatches \cap Watches : WatchReturn(w)
    \/ StartWait
    \/ StartReturn
    \/ StopCancel
    \/ StopLimiterLock
    \/ StopLimiterWaited
    \/ WaitDispatch
    \/ \E d \in Disciplines : SweeperExit(d)
    \/ \E w \in Watches : DispatchJudge(w)
    \/ \E w \in Watches : DispatchJail(w)
    \/ \E w \in Watches : DispatchCtxDone(w)
    \/ \E w \in Watches : DispatchClosed(w)
    \/ \E w \in Watches : DispatchChanClosed(w)
    \/ \E w \in FileWatches \cap Watches : \E i \in 1..Len(Files(w)) : FileCtxDone(w, i)
    \/ \E w \in FileWatches \cap Watches : \E i \in 1..Len(Files(w)) : FileDeliver(w, i)
    \/ \E w \in FileWatches \cap Watches : \E i \in 1..Len(Files(w)) : FileSendFail(w, i)
    \/ \E w \in FileWatches \cap Watches : \E i \in 1..Len(Files(w)) : FileDefer(w, i)

\* the operator's stop and wait, the ticker, the jail's target, the tailed files
FilesEnvironmentNext ==
    \/ StopBegin
    \/ WaitBegin
    \/ \E d \in Disciplines : SweeperTick(d)
    \/ \E w \in Watches : ArrestReturn(w)
    \/ \E w \in FileWatches \cap Watches : \E i \in 1..Len(Files(w)), text \in EngineTexts :
           FileRead(w, i, text)
    \/ \E w \in FileWatches \cap Watches : \E i \in 1..Len(Files(w)) : FileTailEnd(w, i)

NextFiles == FilesProgramNext \/ FilesEnvironmentNext

SpecFiles == InitFiles /\ [][NextFiles]_vars

\* the file's task is running, or watch() has not come to the file yet
ActiveOrToStart(w, i) ==
    \/ fw[w].task[i].pc \in {"select", "send"}
    \/ fw[w].task[i].pc = "none" /\ fw[w].next <= i

\* C26: while startup has not failed and nobody has stopped the engine, the
\* file watch's Line channel is closed when the tasks of all its files have
\* ended, and only then: it is open while a configured file that is
\* there has a running task or is still to get one from watch().
C26_AutoFinalize ==
    \A w \in FileWatches \cap Watches :
        (start.pc = "run" /\ stopper.pc = "idle") =>
            /\ (/\ fw[w].next = Len(Files(w)) + 1
                /\ \E i \in 1..Len(Files(w)) : fw[w].task[i].pc = "done"
                /\ \A i \in 1..Len(Files(w)) : fw[w].task[i].pc \in {"none", "done"})
               => fw[w].closed
            /\ (\E i \in 1..Len(Files(w)) :
                   /\ Files(w)[i] \notin start.missing
                   /\ ActiveOrToStart(w, i))
               => ~fw[w].closed

\* a configured file of the watch is missing
SomeFileMissing(w) == \E i \in 1..Len(Files(w)) : Files(w)[i] \in start.missing

\* C27: with a missing file and skip_when_file_not_exists false the watch
\* never starts and, once Start has returned the error, no file task of
\* the watch is running; with skip_when_file_not_exists true startup does
\* not fail, the missing file gets no task, and while a wait() that follows
\* stop() is blocked some task of the program can take a step.
C27_MissingFile ==
    \A w \in FileWatches \cap Watches :
        SomeFileMissing(w) =>
            /\ ~start.skip =>
                  /\ dsp[w].pc = "none"
                  /\ start.pc = "returned" =>
                        \A i \in 1..Len(Files(w)) : fw[w].task[i].pc \in {"none", "done"}
            /\ start.skip =>
                  /\ start.pc = "run"
                  /\ \A i \in 1..Len(Files(w)) :
                        Files(w)[i] \in start.missing => fw[w].task[i].pc = "none"
                  /\ (stopper.pc # "idle" /\ waiter.pc = "finish") =>
                        ENABLED (FilesProgramNext \/ \E v \in Watches : ArrestReturn(v))

(***************************************************************************)
(* SpecChan: one Chan[T] of size 0 (utils.go), two tasks that call Send    *)
(* with values of their own, two tasks that call Close, and a receiver     *)
(* that takes whatever is sent.  A task is followed through Send and       *)
(* Close statement by statement.  c.closed is read in Send and written in  *)
(* Close without synchronisation: the read returns false, or true once a   *)
(* Close has entered once.Do.                                              *)
(***************************************************************************)
Senders == {"s1", "s2"}
Closers == {"c1", "c2"}

InitChan ==
    /\ now = 0
    /\ lim = NilLimiter
    /\ addLog = <<>>
    /\ rd = NoDiscipline
    /\ allow = <<>>
    /\ lastJudge = NoJudge
    /\ NoEngine
    /\ contains = NoContains
    /\ restart = ZeroRestartPolicy
    /\ nextLog = <<>>
    /\ jc = <<>>
    /\ wr = NoWriter
    /\ NoData
    /\ chan = [c |-> NewChan,
               send |-> [s \in Senders |-> [pc |-> "idle", n |-> 0]],
               close |-> [t \in Closers |-> "idle"],
               received |-> <<>>,
               results |-> <<>>]

\* what 'if c.closed' in Send may read
ReadClosed(c) == {FALSE} \cup (IF c.once # "new" THEN {TRUE} ELSE {})

\* a Send whose deferred function recovers nothing
RecoverNothing(outcome) == outcome

\* Send's deferred function: a panic becomes the error "send panic"
Recover(outcome) == IF outcome = "panic" THEN "send panic" ELSE outcome

\* c.once.Do finds the Once unused
OnceFirst(c) == c.once = "new"

\* Send(v) is called and reads c.closed: it returns the error at once, or
\* installs the deferred function and goes on to c.ch <- v
SendCall(s) ==
    /\ chan.send[s].pc = "idle"
    /\ chan.send[s].n < MaxSends
    /\ LET v == <<s, chan.send[s].n + 1>>
       IN  \E r \in ReadClosed(chan.c) :
              chan' = IF r
                      THEN [chan EXCEPT !.send[s].n = @ + 1,
                                        !.results = Append(@, [v |-> v,
                                                     err |-> "send to closed channel"])]
                      ELSE [chan EXCEPT !.send[s] = [pc |-> "send", n |-> @.n + 1]]
    /\ UNCHANGED <<now, limVars, judgeVars, cfg, start, fin, ectx, waits, stopper, waiter,
                   disc, mu, sweeper, dsp, recv, elog, bg, counters, fw, sw, contains,
                   restart, nextLog, jc, wr, dataVars>>

\* c.ch <- v meets the receiver; Send returns nil
SendDeliver(s) ==
    /\ chan.send[s].pc = "send"
    /\ chan.c.ch = "open"
    /\ LET v == <<s, chan.send[s].n>>
       IN  chan' = [chan EXCEPT !.send[s].pc = "idle",
                                !.received = Append(@, v),
                                !.results = Append(@, [v |-> v, err |-> "nil"])]
    /\ UNCHANGED <<now, limVars, judgeVars, cfg, start, fin, ectx, waits, stopper, waiter,
                   disc, mu, sweeper, dsp, recv, elog, bg, counters, fw, sw, contains,
                   restart, nextLog, jc, wr, dataVars>>

\* c.ch <- v on the closed channel, whether the task was blocked in it when
\* the channel was closed or comes to it afterwards: the send panics, the
\* deferred function runs
SendPanic(s) ==
    /\ chan.send[s].pc = "send"
    /\ chan.c.ch = "closed"
    /\ LET v == <<s, chan.send[s].n>>
           out == Recover("panic")
       IN  chan' = IF out = "panic"
                   THEN [chan EXCEPT !.send[s].pc = "panicked"]
                   ELSE [chan EXCEPT !.send[s].pc = "idle",
                                     !.results = Append(@, [v |-> v, err |-> out])]
    /\ UNCHANGED <<now, limVars, judgeVars, cfg, start, fin, ectx, waits, stopper, waiter,
                   disc, mu, sweeper, dsp, recv, elog, bg, counters, fw, sw, contains,
                   restart, nextLog, jc, wr, dataVars>>

\* Close() is called: c.once.Do runs the function in this task, or waits
\* for the task that is running it, or returns
CloseCall(t) ==
    /\ chan.close[t] = "idle"
    /\ chan' = IF OnceFirst(chan.c)
               THEN [chan EXCEPT !.c.once = "running", !.close[t] = "close"]
               ELSE [chan EXCEPT !.close[t] = "wait"]
    /\ UNCHANGED <<now, limVars, judgeVars, cfg, start, fin, ectx, waits, stopper, waiter,
                   disc, mu, sweeper, dsp, recv, elog, bg, counters, fw, sw, contains,
                   restart, nextLog, jc, wr, dataVars>>

\* close(c.ch); closing a closed channel panics
CloseChan(t) ==
    /\ chan.close[t] = "close"
    /\ chan' = IF chan.c.ch = "closed"
               THEN [chan EXCEPT !.close[t] = "panicked"]
               ELSE [chan EXCEPT !.c.ch = "closed", !.close[t] = "mark"]
    /\ UNCHANGED <<now, limVars, judgeVars, cfg, start, fin, ectx, waits, stopper, waiter,
                   disc, mu, sweeper, dsp, recv, elog, bg, counters, fw, sw, contains,
                   restart, nextLog, jc, wr, dataVars>>

\* c.closed = true; the function and once.Do return
CloseMark(t) ==
    /\ chan.close[t] = "mark"
    /\ chan' = [chan EXCEPT !.c.closed = TRUE, !.c.once = "done", !.close[t] = "returned"]
    /\ UNCHANGED <<now, limVars, judgeVars, cfg, start, fin, ectx, waits, stopper, waiter,
                   disc, mu, sweeper, dsp, recv, elog, bg, counters, fw, sw, contains,
                   restart, nextLog, jc, wr, dataVars>>

\* once.Do returns in a task that did not run the function
CloseWaited(t) ==
    /\ chan.close[t] = "wait"
    /\ chan.c.once = "done"
    /\ chan' = [chan EXCEPT !.close[t] = "returned"]
    /\ UNCHANGED <<now, limVars, judgeVars, cfg, start, fin, ectx, waits, stopper, waiter,
                   disc, mu, sweeper, dsp, recv, elog, bg, counters, fw, sw, contains,
                   restart, nextLog, jc, wr, dataVars>>

NextChan ==
    \/ \E s \in Senders : SendCall(s)
    \/ \E s \in Senders : SendDeliver(s)
    \/ \E s \in Senders : SendPanic(s)
    \/ \E t \in Closers : CloseCall(t)
    \/ \E t \in Closers : CloseChan(t)
    \/ \E t \in Closers : CloseMark(t)
    \/ \E t \in Closers : CloseWaited(t)

SpecChan == InitChan /\ [][NextChan]_vars

\* the values received so far
Received == {chan.received[i] : i \in 1..Len(chan.received)}

\* C28: in every interleaving of Send and Close no task panics out of Send
\* or Close; every Send that has returned has returned nil with its value
\* received exactly once, or an error with its value never received; and a
\* Send that is at its channel send when the channel is closed gets its error.
C28_SendCloseSafe ==
    /\ \A s \in Senders : chan.send[s].pc # "panicked"
    /\ \A t \in Closers : chan.close[t] # "panicked"
    /\ \A i \in 1..Len(chan.results) :
          /\ chan.results[i].err = "nil" <=> chan.results[i].v \in Received
          /\ \A k \in 1..Len(chan.results) :
                chan.results[k].v = chan.results[i].v => k = i
    /\ \A i, k \in 1..Len(chan.received) :
          chan.received[i] = chan.received[k] => i = k
    /\ \A s \in Senders :
          chan.send[s].pc = "send" =>
              /\ <<s, chan.send[s].n>> \notin Received
              /\ chan.c.ch = "closed" => ENABLED SendPanic(s)

\* one Close is inside once.Do with the channel closed and c.closed not yet
\* set, the other waits for it; a Send was delivered, a Send that was at
\* its channel send got the panic as an error, a Send that read c.closed
\* got its error, and a Send is still at its channel send
C28_Witness ==
    /\ \E t, u \in Closers : chan.close[t] = "mark" /\ chan.close[u] = "wait"
    /\ \E s \in Senders : chan.send[s].pc = "send"
    /\ \E i, k, m \in 1..Len(chan.results) :
          /\ chan.results[i].err = "nil"
          /\ chan.results[k].err = "send panic"
          /\ chan.results[m].err = "send to closed channel"

(***************************************************************************)
(* SpecWriter: one chanWriter (utils.go) on a Chan[string] with a          *)
(* receiver that takes every message.  The input arrives in Write calls    *)
(* of any sizes; the channel may be closed between two Writes or between   *)
(* two Sends of one Write; Close is called once, after the last Write.     *)
(* A byte is "a", "b" or the newline "NL".                                 *)
(***************************************************************************)
Bytes == {"a", "b", "NL"}

RECURSIVE Chunks(_)
\* the byte slices of length 1..n
Chunks(n) ==
    IF n = 0 THEN {}
    ELSE Chunks(n - 1) \cup [1..n -> Bytes]

InitWriter ==
    /\ now = 0
    /\ lim = NilLimiter
    /\ addLog = <<>>
    /\ rd = NoDiscipline
    /\ allow = <<>>
    /\ lastJudge = NoJudge
    /\ NoEngine
    /\ contains = NoContains
    /\ restart = ZeroRestartPolicy
    /\ nextLog = <<>>
    /\ jc = <<>>
    /\ chan = NoChan
    /\ wr = NoWriter
    /\ NoData

\* a search that never finds the byte
IndexByteNone(p, c) == 0

\* bytes.IndexByte(p, c), counted from 1; 0 where Go returns -1
IndexByte(p, c) ==
    IF \E i \in 1..Len(p) : p[i] = c
    THEN CHOOSE i \in 1..Len(p) : p[i] = c /\ \A k \in 1..(i - 1) : p[k] # c
    ELSE 0

RECURSIVE WriteLoop(_, _, _, _)
\* the loop of chanWriter.Write over p, with the channel open for the next k
\* Sends and closed after them: the buffer and the messages received when the
\* loop ends, what is left of p, and the error of the Send that failed
WriteLoop(buf, p, out, k) ==
    IF Len(p) = 0 THEN [buf |-> buf, out |-> out, k |-> k, rest |-> 0, err |-> "nil"]
    ELSE LET idx == IndexByte(p, "NL")
         IN  IF idx > 0
             THEN LET line == buf \o SubSeq(p, 1, idx - 1)
                  IN  IF k = 0
                      THEN [buf |-> line, out |-> out, k |-> 0, rest |-> Len(p),
                            err |-> "send to closed channel"]
                      ELSE WriteLoop(<<>>, SubSeq(p, idx + 1, Len(p)), Append(out, line),
                                     k - 1)
             ELSE [buf |-> buf \o p, out |-> out, k |-> k, rest |-> 0, err |-> "nil"]

\* chanWriter.Write(p): the loop, then the flush of a buffer of FlushBytes
\* or more, whose Send's error is not looked at.  failed: a Send of this
\* Write met the closed channel
ChanWriterWrite(buf, p, out, k) ==
    LET r == WriteLoop(buf, p, out, k)
    IN  IF r.err # "nil"
        THEN [buf |-> r.buf, out |-> r.out, n |-> Len(p) - r.rest, err |-> r.err,
              failed |-> TRUE]
        ELSE IF Len(r.buf) >= FlushBytes
        THEN [buf |-> <<>>, out |-> IF r.k > 0 THEN Append(r.out, r.buf) ELSE r.out,
              n |-> Len(p), err |-> "nil", failed |-> r.k = 0]
        ELSE [buf |-> r.buf, out |-> r.out, n |-> Len(p), err |-> "nil", failed |-> FALSE]

\* w.Write(p) by the task that copies the input, which stops at the first
\* error.  The channel is closed already, or stays open for the first k
\* Sends of this Write
WriterWrite(p) ==
    /\ ~wr.closed
    /\ Len(wr.input) + Len(p) <= MaxInput
    /\ \A i \in 1..Len(wr.rets) : wr.rets[i].err = "nil"
    /\ \E k \in IF wr.ch.ch = "open" THEN 0..Len(p) ELSE {0} :
          LET r == ChanWriterWrite(wr.w.buf, p, wr.out, k)
          IN  /\ (wr.ch.ch = "open" /\ k < Len(p)) => r.failed
              /\ wr' = [wr EXCEPT !.w.buf = r.buf,
                                  !.out = r.out,
                                  !.input = @ \o p,
                                  !.rets = Append(@, [size |-> Len(p), n |-> r.n,
                                                      err |-> r.err]),
                                  !.ch = IF r.failed
                                         THEN [ch |-> "closed", closed |-> TRUE,
                                               once |-> "done"]
                                         ELSE @]
    /\ UNCHANGED <<now, limVars, judgeVars, cfg, start, fin, ectx, waits, stopper, waiter,
                   disc, mu, sweeper, dsp, recv, elog, bg, counters, fw, sw, contains,
                   restart, nextLog, jc, chan, dataVars>>

\* w.Close(): a buffer that is not empty is sent, the Send's error is not
\* looked at, the buffer is left as it is
WriterClose ==
    /\ ~wr.closed
    /\ wr' = [wr EXCEPT !.closed = TRUE,
                        !.out = IF Len(wr.w.buf) > 0 /\ wr.ch.ch = "open"
                                THEN Append(@, wr.w.buf) ELSE @]
    /\ UNCHANGED <<now, limVars, judgeVars, cfg, start, fin, ectx, waits, stopper, waiter,
                   disc, mu, sweeper, dsp, recv, elog, bg, counters, fw, sw, contains,
                   restart, nextLog, jc, chan, dataVars>>

\* another task calls the channel's Close between two calls of the writer
WriterChanClose ==
    /\ wr.ch.ch = "open"
    /\ wr' = [wr EXCEPT !.ch = [ch |-> "closed", closed |-> TRUE, once |-> "done"]]
    /\ UNCHANGED <<now, limVars, judgeVars, cfg, start, fin, ectx, waits, stopper, waiter,
                   disc, mu, sweeper, dsp, recv, elog, bg, counters, fw, sw, contains,
                   restart, nextLog, jc, chan, dataVars>>

NextWriter ==
    \/ \E p \in Chunks(MaxChunk) : WriterWrite(p)
    \/ WriterClose
    \/ WriterChanClose

SpecWriter == InitWriter /\ [][NextWriter]_vars

\* where the newlines of s are
NLPos(s) == {i \in 1..Len(s) : s[i] = "NL"}

\* the last newline of s, 0 if it has none
LastNL(s) == IF NLPos(s) = {} THEN 0 ELSE CHOOSE i \in NLPos(s) : \A k \in NLPos(s) : k <= i

\* what follows the last newline of s
PartialLine(s) == SubSeq(s, LastNL(s) + 1, Len(s))

RECURSIVE CompleteLines(_)
\* the newline-terminated lines of s, without their newlines
CompleteLines(s) ==
    IF NLPos(s) = {} THEN <<>>
    ELSE LET pre == SubSeq(s, 1, LastNL(s) - 1)
         IN  Append(CompleteLines(pre), PartialLine(pre))

RECURSIVE Flatten(_)
\* the messages one after the other
Flatten(ms) == IF ms = <<>> THEN <<>> ELSE Head(ms) \o Flatten(Tail(ms))

\* s without its newlines
StripNL(s) == SelectSeq(s, LAMBDA c : c # "NL")

\* every line of s, the unterminated last one too, is shorter than the
\* flush size
ShortLines(s) ==
    /\ Len(PartialLine(s)) < FlushBytes
    /\ \A i \in 1..Len(CompleteLines(s)) : Len(CompleteLines(s)[i]) < FlushBytes

\* every Write reported all its bytes consumed; the messages received are
\* the newline-terminated lines of the input in order, each once and
\* without its newline, followed by the unterminated rest of the input if
\* there is one and the writer was closed
LinesAreInput ==
    /\ \A i \in 1..Len(wr.rets) : wr.rets[i].err = "nil" /\ wr.rets[i].n = wr.rets[i].size
    /\ wr.out = CompleteLines(wr.input) \o
                (IF wr.closed /\ Len(PartialLine(wr.input)) > 0
                 THEN <<PartialLine(wr.input)>> ELSE <<>>)

C30_ForceFlush ==
    /\ Len(wr.w.buf) <= FlushBytes
    /\ ~wr.closed => Len(wr.out) <= Cardinality(NLPos(wr.input)) + Len(wr.rets)
    /\ (~wr.closed /\ \A i \in 1..Len(wr.rets) : wr.rets[i].err = "nil") =>
           StripNL(wr.input) = Flatten(wr.out) \o wr.w.buf

(***************************************************************************)
(* SpecRing: one RingBuffer (utils.go) of any capacity up to MaxCap and    *)
(* any sequence of Write calls, the empty one too.  r.buf is its backing   *)
(* array (arr, cap(r.buf) long) and its length (len).                      *)
(***************************************************************************)
RingBytes == {"a", "b"}

RECURSIVE Blocks(_)
\* the byte slices of length 0..n
Blocks(n) ==
    IF n = 0 THEN {<<>>}
    ELSE Blocks(n - 1) \cup [1..n -> RingBytes]

\* the variables of the other specifications where a single type is under test
OnlyUnits ==
    /\ now = 0
    /\ lim = NilLimiter
    /\ addLog = <<>>
    /\ rd = NoDiscipline
    /\ allow = <<>>
    /\ lastJudge = NoJudge
    /\ NoEngine
    /\ contains = NoContains
    /\ restart = ZeroRestartPolicy
    /\ nextLog = <<>>
    /\ jc = <<>>
    /\ chan = NoChan
    /\ wr = NoWriter

InitRing ==
    /\ OnlyUnits
    /\ cache = NoCache
    /\ merged = NoMerged
    /\ \E size \in 0..MaxCap : ring = [r |-> NewRingBuffer(size), W |-> <<>>, rets |-> <<>>]

\* a copy that moves nothing
CopyNothing(arr, at, src) == arr

\* copy(arr[at:at+len(src)], src), at counted from 0: the built-in copy into
\* a part of the backing array that is long enough for src
Copy(arr, at, src) ==
    [i \in 1..Len(arr) |-> IF i > at /\ i <= at + Len(src) THEN src[i - at] ELSE arr[i]]

\* RingBuffer.Bytes()
RingBufferBytes(r) == SubSeq(r.arr, 1, r.len)

\* RingBuffer.Write(b): the buffer afterwards and what Write returns
RingBufferWrite(r, b) ==
    LET c == Len(r.arr)
    IN  IF Len(b) = 0 THEN [r |-> r, n |-> 0, err |-> "nil"]
        ELSE IF Len(b) >= c
        THEN [r |-> [arr |-> Copy(r.arr, 0, SubSeq(b, Len(b) - c + 1, Len(b))), len |-> c],
              n |-> Len(b), err |-> "nil"]
        ELSE IF c - r.len >= Len(b)
        THEN [r |-> [arr |-> Copy(r.arr, r.len, b), len |-> r.len + Len(b)],
              n |-> Len(b), err |-> "nil"]
        ELSE LET w == c - Len(b)
                 cur == r.len
                 kept == Copy(r.arr, 0, SubSeq(r.arr, cur - w + 1, cur))
             IN  [r |-> [arr |-> Copy(kept, w, b), len |-> c],
                  n |-> Len(b), err |-> "nil"]

\* r.Write(b)
RingWrite(b) ==
    /\ Len(ring.rets) < MaxWrites
    /\ Len(ring.W) + Len(b) <= MaxWritten
    /\ LET res == RingBufferWrite(ring.r, b)
       IN  ring' = [r |-> res.r, W |-> ring.W \o b,
                    rets |-> Append(ring.rets, [size |-> Len(b), n |-> res.n,
                                                err |-> res.err])]
    /\ UNCHANGED <<now, limVars, judgeVars, cfg, start, fin, ectx, waits, stopper, waiter,
                   disc, mu, sweeper, dsp, recv, elog, bg, counters, fw, sw, contains,
                   restart, nextLog, jc, ioVars, cache, merged>>

NextRing == \E b \in Blocks(MaxBlock) : RingWrite(b)

SpecRing == InitRing /\ [][NextRing]_vars

\* the smaller of two numbers
Min(a, b) == IF a <= b THEN a ELSE b

\* the last n elements of s
LastOf(s, n) == SubSeq(s, Len(s) - n + 1, Len(s))

\* C31: every Write(b) returned len(b) and no error, and the buffer holds
\* the last min(len(W), C) bytes of everything written, W, so never more
\* than its capacity C.
C31_RingKeepsTail ==
    /\ \A i \in 1..Len(ring.rets) :
          ring.rets[i].n = ring.rets[i].size /\ ring.rets[i].err = "nil"
    /\ RingBufferBytes(ring.r) = LastOf(ring.W, Min(Len(ring.W), Len(ring.r.arr)))
    /\ Len(RingBufferBytes(ring.r)) <= Len(ring.r.arr)

\* capacity 3: "ab" fits, "ba" straddles the capacity and keeps "b", "ab"
\* straddles it again and keeps "a"
C31_Witness ==
    /\ Len(ring.r.arr) = 3
    /\ Len(ring.rets) = 3
    /\ ring.rets[1].size = 2 /\ ring.rets[2].size = 2 /\ ring.rets[3].size = 2
    /\ ring.W = <<"a", "b", "b", "a", "a", "b">>
    /\ RingBufferBytes(ring.r) = <<"a", "a", "b">>

(***************************************************************************)
(* SpecCache: one IPLocationCache (iplocation.go) built with a capacity    *)
(* of 1..MaxCacheCap, and any sequence of Set and Get calls.  s.value is   *)
(* its backing array (value) and its length (len); an index is counted     *)
(* from 1.  The key a full cache evicts is the first of a map iteration:   *)
(* any of its keys.                                                        *)
(***************************************************************************)
CacheKeys == {"k1", "k2", "k3"}
CacheValues == {"x", "y"}

InitCache ==
    /\ OnlyUnits
    /\ ring = NoRing
    /\ merged = NoMerged
    /\ \E size \in 1..MaxCacheCap : cache = [c |-> CacheInit(size), log |-> <<>>]

\* a delete that deletes nothing
EvictNothing(data, victim) == data

\* delete(s.data, key)
Evict(data, victim) == [k \in DOMAIN data \ {victim} |-> data[k]]

\* s.data[fixedIP] = idx
Put(data, key, idx) == [k \in DOMAIN data \cup {key} |-> IF k = key THEN idx ELSE data[k]]

\* IPLocationCache.Get(ip)
CacheGet(c, key) == IF key \in DOMAIN c.data THEN c.value[c.data[key]] ELSE ""

\* IPLocationCache.Set(ip, value), victim being the key the map iteration
\* gives first
CacheSet(c, key, value, victim) ==
    IF key \in DOMAIN c.data
    THEN [c EXCEPT !.value[c.data[key]] = value]
    ELSE IF c.len = Len(c.value)
    THEN LET idx == c.data[victim]
         IN  [c EXCEPT !.data = Put(Evict(c.data, victim), key, idx),
                       !.value[idx] = value]
    ELSE LET idx == Cardinality(DOMAIN c.data) + 1
         IN  [c EXCEPT !.data = Put(c.data, key, idx),
                       !.len = idx,
                       !.value[idx] = value]

\* cache.Set(key, value)
DoCacheSet(key, value) ==
    /\ Len(cache.log) < MaxCacheCalls
    /\ \E victim \in DOMAIN cache.c.data \cup {key} :
          /\ (key \notin DOMAIN cache.c.data /\ cache.c.len = Len(cache.c.value))
                 <=> victim # key
          /\ LET c1 == CacheSet(cache.c, key, value, victim)
             IN  cache' = [c |-> c1,
                           log |-> Append(cache.log, [op |-> "Set", k |-> key, v |-> value,
                                                      keys |-> DOMAIN c1.data])]
    /\ UNCHANGED <<now, limVars, judgeVars, cfg, start, fin, ectx, waits, stopper, waiter,
                   disc, mu, sweeper, dsp, recv, elog, bg, counters, fw, sw, contains,
                   restart, nextLog, jc, ioVars, ring, merged>>

\* cache.Get(key)
DoCacheGet(key) ==
    /\ Len(cache.log) < MaxCacheCalls
    /\ cache' = [cache EXCEPT !.log = Append(@, [op |-> "Get", k |-> key,
                                                 v |-> CacheGet(cache.c, key),
                                                 keys |-> DOMAIN cache.c.data])]
    /\ UNCHANGED <<now, limVars, judgeVars, cfg, start, fin, ectx, waits, stopper, waiter,
                   disc, mu, sweeper, dsp, recv, elog, bg, counters, fw, sw, contains,
                   restart, nextLog, jc, ioVars, ring, merged>>

NextCache ==
    \/ \E key \in CacheKeys, value \in CacheValues : DoCacheSet(key, value)
    \/ \E key \in CacheKeys : DoCacheGet(key)

SpecCache == InitCache /\ [][NextCache]_vars

\* the keys cached before call i
KeysBefore(i) == IF i = 1 THEN {} ELSE cache.log[i - 1].keys

\* C32: the cache never holds more entries than its capacity; a Set of a
\* new key on a full cache removes exactly one of the keys cached before,
\* and a Set of a cached key or on a cache that is not full removes none.
C32_CacheBounded ==
    /\ Cardinality(DOMAIN cache.c.data) <= Len(cache.c.value)
    /\ \A i \in 1..Len(cache.log) :
          cache.log[i].op = "Set" =>
              LET before == KeysBefore(i)
                  after == cache.log[i].keys
                  full == Cardinality(before) = Len(cache.c.value)
              IN  /\ Cardinality(after) <= Len(cache.c.value)
                  /\ cache.log[i].k \in after
                  /\ (cache.log[i].k \notin before /\ full) =>
                        Cardinality(before \ after) = 1
                  /\ (cache.log[i].k \in before \/ ~full) => before \subseteq after

\* a cache of capacity 2 was filled, a Set of a cached key removed nothing,
\* a Set of a third key removed one key
C32_Witness ==
    /\ Len(cache.c.value) = 2
    /\ \E i, j \in 1..Len(cache.log) :
          /\ i < j
          /\ cache.log[i].op = "Set" /\ cache.log[i].k \in KeysBefore(i)
          /\ Cardinality(KeysBefore(i)) = 2
          /\ cache.log[j].op = "Set" /\ cache.log[j].k \notin KeysBefore(j)
          /\ Cardinality(KeysBefore(j) \ cache.log[j].keys) = 1

\* the Set calls for key before call i
SetsBefore(key, i) ==
    {j \in 1..(i - 1) : cache.log[j].op = "Set" /\ cache.log[j].k = key}

\* the value of the last Set for key before call i
LastSet(key, i) ==
    cache.log[CHOOSE j \in SetsBefore(key, i) : \A m \in SetsBefore(key, i) : m <= j].v

\* C33: a Get of a key that is cached returns the value of the last Set for
\* that key, a Get of a key that is not returns the empty string; after
\* every Set the key set is cached, and every cached key reads the value of
\* its own last Set.
C33_GetReturnsLastSet ==
    /\ \A i \in 1..Len(cache.log) :
          /\ cache.log[i].op = "Get" =>
                cache.log[i].v = IF cache.log[i].k \in cache.log[i].keys
                                 THEN LastSet(cache.log[i].k, i)
                                 ELSE ""
          /\ cache.log[i].op = "Set" => cache.log[i].k \in cache.log[i].keys
    /\ \A key \in DOMAIN cache.c.data :
          /\ SetsBefore(key, Len(cache.log) + 1) # {}
          /\ CacheGet(cache.c, key) = LastSet(key, Len(cache.log) + 1)

\* on a full cache of capacity 1 a Set of a second key with another value
\* was followed by a Get of it that returned that value and a Get of the
\* first key that returned the empty string
C33_Witness ==
    /\ Len(cache.c.value) = 1
    /\ Len(cache.log) = 4
    /\ cache.log[1] = [op |-> "Set", k |-> "k1", v |-> "x", keys |-> {"k1"}]
    /\ cache.log[2] = [op |-> "Set", k |-> "k2", v |-> "y", keys |-> {"k2"}]
    /\ cache.log[3] = [op |-> "Get", k |-> "k2", v |-> "y", keys |-> {"k2"}]
    /\ cache.log[4] = [op |-> "Get", k |-> "k1", v |-> "", keys |-> {"k2"}]

(***************************************************************************)
(* SpecMerge: Parse (config.go) merges up to MaxDocs documents into one    *)
(* Config.  A descriptor is its id, the number of the document it comes    *)
(* from and its place in that document's list.  The merge of Allows, which *)
(* has no ids, is left out.                                                *)
(***************************************************************************)
Kinds == {"Jails", "Watches", "Disciplines", "IPLocationSources"}

\* the ids a document may list under one kind, in order
IdLists == {<<>>, <<"a">>, <<"b">>, <<"a", "b">>, <<"b", "a">>, <<"a", "a">>}

\* the descriptors of document number doc that has these ids under a kind
Descriptors(ids, doc) == [i \in 1..Len(ids) |-> [ID |-> ids[i], doc |-> doc, pos |-> i]]

InitMerge ==
    /\ OnlyUnits
    /\ ring = NoRing
    /\ cache = NoCache
    /\ merged = NoMerged

\* an append that looks for no equal element
AppendAll(dst, src) == dst \o src

RECURSIVE AppendIf(_, _)
\* appendIf(dst, src, eq) with eq comparing ids: each element of src takes
\* the place of the first element of dst with its id, or is appended
AppendIf(dst, src) ==
    IF src = <<>> THEN dst
    ELSE LET j == Head(src)
             hits == {i \in 1..Len(dst) : dst[i].ID = j.ID}
         IN  IF hits # {}
             THEN LET i == CHOOSE i \in hits : \A k \in hits : i <= k
                  IN  AppendIf([dst EXCEPT ![i] = j], Tail(src))
             ELSE AppendIf(Append(dst, j), Tail(src))

\* mergeConfig(dst, src)
MergeConfig(dst, src) ==
    [Jails |-> AppendIf(dst.Jails, src.Jails),
     Disciplines |-> AppendIf(dst.Disciplines, src.Disciplines),
     Watches |-> AppendIf(dst.Watches, src.Watches),
     IPLocationSources |-> AppendIf(dst.IPLocationSources, src.IPLocationSources)]

\* one turn of Parse's loop: the next file is parsed and merged.  The
\* document lists the same ids for its jails and disciplines, and for its
\* watches and location sources
ParseFile(ids1, ids2) ==
    /\ Len(merged.docs) < MaxDocs
    /\ LET n == Len(merged.docs) + 1
           c == [Jails |-> Descriptors(ids1, n),
                 Disciplines |-> Descriptors(ids1, n),
                 Watches |-> Descriptors(ids2, n),
                 IPLocationSources |-> Descriptors(ids2, n)]
       IN  merged' = [cfg |-> MergeConfig(merged.cfg, c), docs |-> Append(merged.docs, c)]
    /\ UNCHANGED <<now, limVars, judgeVars, cfg, start, fin, ectx, waits, stopper, waiter,
                   disc, mu, sweeper, dsp, recv, elog, bg, counters, fw, sw, contains,
                   restart, nextLog, jc, ioVars, ring, cache>>

NextMerge == \E ids1 \in IdLists, ids2 \in IdLists : ParseFile(ids1, ids2)

SpecMerge == InitMerge /\ [][NextMerge]_vars

\* the descriptors with this id that the documents list under a kind
Defined(kind, id) ==
    {d \in UNION {{merged.docs[n][kind][i] : i \in 1..Len(merged.docs[n][kind])} :
                     n \in 1..Len(merged.docs)} : d.ID = id}

\* C34: in the merged configuration no two descriptors of a kind have the
\* same id; every id some document defines under a kind is there, and its
\* descriptor is the one of the last document that defines it (the last of
\* that document, if it lists the id twice); nothing else is there.
C34_MergeKeepsLast ==
    \A kind \in Kinds :
        LET list == merged.cfg[kind]
        IN  /\ \A i, k \in 1..Len(list) : list[i].ID = list[k].ID => i = k
            /\ \A i \in 1..Len(list) :
                  /\ list[i] \in Defined(kind, list[i].ID)
                  /\ \A d \in Defined(kind, list[i].ID) :
                        \/ d.doc < list[i].doc
                        \/ d.doc = list[i].doc /\ d.pos <= list[i].pos
            /\ \A id \in {"a", "b"} :
                  Defined(kind, id) # {} => \E i \in 1..Len(list) : list[i].ID = id

\* two documents define jail a, the second one after jail b: the merged
\* jails are a from the second document, then b from the first
C34_Witness ==
    /\ Len(merged.docs) = 2
    /\ merged.cfg.Jails = <<[ID |-> "a", doc |-> 2, pos |-> 1],
                            [ID |-> "b", doc |-> 1, pos |-> 2]>>
    /\ Len(merged.cfg.Watches) = 1 /\ merged.cfg.Watches[1].doc = 2

(***************************************************************************)
(* SpecCounters: the engine with one discipline on the file watch wf and   *)
(* the foreground jail j1, as in TestCountersWorks, tailing a file whose   *)
(* lines hold addresses to arrest, addresses the allow list covers,        *)
(* addresses that do not parse, and no address at all.                     *)
(***************************************************************************)
\* the values of cfg.Disciplines: rate 1/1s, or rate 2/1s
CfgCounters ==
    {<<[ID |-> "d1", Watches |-> <<"wf">>, Jails |-> <<"j1">>, Rate |-> NewLimiter(1, 1)]>>,
     <<[ID |-> "d1", Watches |-> <<"wf">>, Jails |-> <<"j1">>, Rate |-> NewLimiter(2, 1)]>>}

\* the lines of the tailed file
CounterTexts ==
    {[word |-> "", quad |-> <<1, 1, 1, 1>>], [word |-> "", quad |-> <<0, 0, 0, 0>>],
     [word |-> "", quad |-> <<999, 1, 1, 1>>], [word |-> "fail", quad |-> NoQuad],
     EmptyText}

InitCounters ==
    /\ cfg \in CfgCounters
    /\ start = PlainStart
    /\ Wired
    /\ sw = [w \in ShellWatches |-> NewShellWatch("once")]

NextCounters ==
    \/ \E w \in Watches : EngineStartWatch(w)
    \/ StopBegin
    \/ StopCancel
    \/ StopLimiterLock
    \/ StopLimiterWaited
    \/ WaitBegin
    \/ WaitDispatch
    \/ \E d \in Disciplines : SweeperTick(d)
    \/ \E d \in Disciplines : SweeperExit(d)
    \/ \E w \in Watches : DispatchJudge(w)
    \/ \E w \in Watches : DispatchJail(w)
    \/ \E w \in Watches : ArrestReturn(w)
    \/ \E w \in Watches : DispatchCtxDone(w)
    \/ \E w \in Watches : DispatchClosed(w)
    \/ \E w \in Watches : DispatchChanClosed(w)
    \/ \E w \in Watches : \E i \in 1..Len(Files(w)), text \in CounterTexts :
           FileRead(w, i, text)
    \/ \E w \in Watches : \E i \in 1..Len(Files(w)) : FileTailEnd(w, i)
    \/ \E w \in Watches : \E i \in 1..Len(Files(w)) : FileCtxDone(w, i)
    \/ \E w \in Watches : \E i \in 1..Len(Files(w)) : FileDeliver(w, i)
    \/ \E w \in Watches : \E i \in 1..Len(Files(w)) : FileSendFail(w, i)
    \/ \E w \in Watches : \E i \in 1..Len(Files(w)) : FileDefer(w, i)

SpecCounters == InitCounters /\ [][NextCounters]_vars

\* the Judge calls made on discipline d so far, as the dispatch tasks saw them
JudgeCalls(d) ==
    {c \in UNION {{[w |-> w, k |-> k] : k \in 1..Len(elog[w])} : w \in Watches} :
        /\ elog[c.w][c.k].e = "judge"
        /\ WatchList(c.w)[elog[c.w][c.k].ci].d = d}

\* the watcher discipline d is attached to
WatcherOf(d) == CHOOSE w \in Watches : \E i \in 1..Len(WatchList(w)) : WatchList(w)[i].d = d

====
